---- MODULE Spec2Model ----
(***************************************************************************)
(* Verification model of the search of the engine.                         *)
(*                                                                         *)
(* Part 1 (specification Spec): the YBWC split-point machinery of          *)
(* src/search.cpp: split(), idle_loop(), sp_search(), sp_search_pv(),      *)
(* thread_should_stop(), thread_is_available() and the move loops of       *)
(* search_pv()/search() that call split().                                 *)
(*                                                                         *)
(* Part 2 (specification SpecTT): the transposition-table probe of          *)
(* search() and ok_to_use_TT().                                            *)
(*                                                                         *)
(* Part 3 (specification SpecNode): one activation of search_pv(),         *)
(* search() or qsearch() from its call to its return.                      *)
(*                                                                         *)
(* Part 4 (specifications SpecRoot, SpecRootFair): the iterative          *)
(* deepening of id_loop() and the aspiration search of root_search().      *)
(*                                                                         *)
(* Part 5 (specification SpecPoll): the node and time limits of think()    *)
(* and poll().                                                             *)
(*                                                                         *)
(* Part 6 (specification SpecHistory): the History tables of               *)
(* src/history.cpp.                                                        *)
(*                                                                         *)
(* Part 7 (specification SpecUci): the command loop of src/uci.cpp.        *)
(*                                                                         *)
(* Part 8 (specification SpecMagics): do_magics() of src/bitboard.cpp.     *)
(*                                                                         *)
(* Part 9 (specification SpecPonder): pondering in id_loop() and poll().   *)
(*                                                                         *)
(* Part 10 (specification SpecThreads): the main thread, the timer thread  *)
(* and the UI thread of src/thread.cpp.                                    *)
(*                                                                         *)
(* Part 11 (specifications SpecRecursion, SpecRecursionFair): the calls    *)
(* of search_pv(), search() and qsearch() to one another.                  *)
(*                                                                         *)
(* Every thread owns a call stack of frames.  A frame is one activation of *)
(* search_pv()/search() ("node"), of sp_search()/sp_search_pv() ("sp") or  *)
(* of idle_loop() ("idle").  A step of a thread is one shared-memory       *)
(* access (or one critical section) of the function on top of its stack.   *)
(* Values, depths, thread counts and move counts are scaled down; the      *)
(* scaled quantities are the definitions of the section "Bounds".          *)
(***************************************************************************)
EXTENDS Integers, Sequences, FiniteSets, TLC

(***************************** Bounds **************************************)
\* largest number of moves that a node of the recursion of Part 11 searches
MaxChildren == 2
\* largest depth of a search that root_search() starts in Part 11
MaxRecursionDepth == 8
\* number of thread slots of the model (THREAD_MAX of the program)
MaxThreads == 3
\* largest number of moves the MovePicker of a node produces
MaxMoves == 3
\* scaled VALUE_INFINITE: search values lie strictly between -MaxValue and MaxValue
MaxValue == 2
\* depth (in plies) of the topmost node thread 0 searches
RootDepth == 4
\* number of SplitPoint objects per thread (scaled ACTIVE_SPLIT_POINTS_MAX)
MaxActiveSplitPoints == 2
\* scaled "Minimum Split Depth" option, in plies
MinSplitPlies == 2
\* scaled VALUE_MATE of the transposition-table values
MateValue == 9
\* scaled PLY_MAX
PlyMax == 6
\* largest depth of a probe and of a stored entry
MaxProbeDepth == 2
\* the futility, razoring and null-move margins, scaled
Margin == 1
\* number of legal moves of the root position
RootMoves == 2
\* scaled smallest aspiration delta (16 in the program)
MinAspirationDelta == 1
\* scaled grain of the evaluation (8 in the program)
GrainSize == 1
\* scaled largest NodesBetweenPolls (30000 in the program)
PollInterval == 2
\* largest search time of a search, in milliseconds
MaxSearchClock == 3
\* largest number of nodes a thread searches
MaxNodeCount == 4
\* number of pieces and of squares of the History tables
HistorySize == 2
\* largest depth of a call of History::success()
MaxHistoryDepth == 2
\* scaled HistoryMax, the score at which the history table is divided
HistoryLimit == 6
\* largest number of calls of History::success() and History::failure()
MaxHistoryCalls == 4
\* largest number of tokens of the move list of a position command
MaxMoveList == 2
\* scaled size of the ring StateRingBuf (102 in the program)
StateRingSize == 3
\* number of ranks and of files of the board of the magic bitboards
BoardSize == 4
\* number of calls of start_thinking()
MaxSearches == 2
\* number of ranks and of files of the chess board
ChessBoardSize == 8
\* number of entries of RAttacksTable (0x19000)
RAttacksTableSize == 102400
\* number of entries of BAttacksTable (0x1480)
BAttacksTableSize == 5248

VALUE_INFINITE == MaxValue
ACTIVE_SPLIT_POINTS_MAX == MaxActiveSplitPoints
MinimumSplitDepth == MinSplitPlies
OnePly == 1

ThreadIds == 0 .. (MaxThreads - 1)
NoThread == -1
SlotIds == 0 .. (ACTIVE_SPLIT_POINTS_MAX - 1)
\* a SplitPoint* is <<owner thread, slot>>; NULL is <<>>
NULL == << >>
SearchValues == (1 - VALUE_INFINITE) .. (VALUE_INFINITE - 1)
MOVE_NONE == 0

VARIABLES
    legalMoves,               \* per depth: the number of moves of a MovePicker
    ActiveThreads,            \* search.cpp:230
    MaxThreadsPerSplitPoint,  \* search.cpp:232
    AbortSearch,              \* search.cpp:211
    Threads,                  \* search.cpp:233  Threads[THREAD_MAX]
    SplitPointStack,          \* search.cpp:237
    MPLock,                   \* holder of the global pool lock, or NoThread
    stack,                    \* per thread: the activations of its call stack
    handed,                   \* history: per split point, the moves handed out
    probe,                    \* Part 2: one transposition-table probe of search()
    seq                       \* Parts 3 and on: the single-threaded function under study

pool == << legalMoves, ActiveThreads, MaxThreadsPerSplitPoint, AbortSearch, Threads,
           SplitPointStack, MPLock, stack, handed >>
vars == << pool, probe, seq >>

(************************* Values and frames *******************************)
VALUE_DRAW == 0
\* scaled value_mated_in(ply): the lowest value a search returns
value_mated == 1 - VALUE_INFINITE

Max(a, b) == IF a >= b THEN a ELSE b
Min(a, b) == IF a <= b THEN a ELSE b

\* one activation record; the fields a kind does not use stay at their defaults.
\* "searched" (moves of the node whose search has returned) and "before" (the
\* master's Threads[].splitPoint at its call of split()) are history fields
Frame(kind, pc) ==
    [kind |-> kind, pc |-> pc, sp |-> NULL, before |-> NULL, pvNode |-> FALSE,
     alpha |-> 0, beta |-> 0, bestValue |-> 0, depth |-> 0,
     moveCount |-> 0, searched |-> 0, cur |-> 0, value |-> 0]

\* MovePicker over n moves: the cursor into a list that ends at move MaxMoves
MovePicker(n) == MaxMoves - n

\* locals of search_pv()/search() at entry of the move loop
NodeFrame(pv, a, b, d) ==
    [Frame("node", "loop") EXCEPT !.pvNode = pv, !.alpha = a, !.beta = b,
                                  !.bestValue = -VALUE_INFINITE, !.depth = d,
                                  !.cur = MovePicker(legalMoves[d])]

IdleFrame(waitSp) == [Frame("idle", "top") EXCEPT !.sp = waitSp]

SpFrame(sp) == [Frame("sp", "acq") EXCEPT !.sp = sp, !.value = -VALUE_INFINITE]

Top(t) == stack[t][Len(stack[t])]
SetTop(t, f) == [stack EXCEPT ![t] = [@ EXCEPT ![Len(@)] = f]]
Push(stk, t, f) == [stk EXCEPT ![t] = Append(@, f)]
Running(t) == t < ActiveThreads /\ Len(stack[t]) > 0

SP(s) == SplitPointStack[s[1]][s[2]]
SetSP(s, r) == [SplitPointStack EXCEPT ![s[1]][s[2]] = r]

\* windows of the topmost node of thread 0: <<pvNode, alpha, beta>>
TopWindows == { <<TRUE, -1, 1>>, <<FALSE, 0, 1>> }
\* the positions searched: the depth of the topmost node and, per depth, the
\* number of legal moves of a node
ShortLists ==
    [depth |-> RootDepth - OnePly, moves |-> [d \in 1 .. RootDepth |-> MaxMoves - 1]]
Positions ==
    { [depth |-> RootDepth,
       moves |-> [d \in 1 .. RootDepth |->
                    IF d = MinimumSplitDepth THEN 1 ELSE MaxMoves - 1]],
      ShortLists,
      [depth |-> RootDepth - OnePly,
       moves |-> [d \in 1 .. RootDepth |->
                    IF d = RootDepth - OnePly THEN MaxMoves ELSE 1]],
      [depth |-> MinimumSplitDepth,
       moves |-> [d \in 1 .. RootDepth |-> MaxMoves]],
      [depth |-> MinimumSplitDepth - OnePly,
       moves |-> [d \in 1 .. RootDepth |-> MaxMoves - 1]] }

\* the options "Threads" and "Maximum Number of Threads per Split Point":
\* <<ActiveThreads, MaxThreadsPerSplitPoint>>; the cap only matters when it is
\* below the number of threads
ThreadOptions ==
    { << n, n >> : n \in 1 .. MaxThreads } \cup { << MaxThreads, MaxThreads - 1 >> }

\* the searches explored.  With all threads on a position above the split depth,
\* a PV window is explored with the short move lists and the lowered thread
\* cap, and the full thread cap with the short move lists
Explored(c, w, p) ==
    (c[1] = MaxThreads /\ p.depth > MinimumSplitDepth)
        => /\ w[1] => (p = ShortLists /\ c[2] < c[1])
           /\ c[2] = c[1] => p = ShortLists

(*************************** MovePicker ************************************)
\* get_next_move(): the move after the cursor, MOVE_NONE when exhausted
get_next_move(cur) == IF cur < MaxMoves THEN cur + 1 ELSE MOVE_NONE
\* the cursor after the call
mp_advance(cur) == IF cur < MaxMoves THEN cur + 1 ELSE cur

(************************ thread_should_stop *******************************)
RECURSIVE cutoff_in_chain(_)
cutoff_in_chain(sp) ==
    IF sp = NULL THEN FALSE
    ELSE IF SP(sp).finished THEN TRUE
    ELSE cutoff_in_chain(SP(sp).parent)

thread_should_stop(t) ==
    IF Threads[t].stop THEN TRUE
    ELSE IF ActiveThreads <= 2 THEN FALSE
    ELSE cutoff_in_chain(Threads[t].splitPoint)

\* Threads after the call: the walk sets the caller's stop flag when it finds a cutoff
StopNoted(T, t) ==
    IF thread_should_stop(t) THEN [T EXCEPT ![t].stop = TRUE] ELSE T

\* Thread::cutoff_occurred() of thread.cpp: the walk without the stop flag
cutoff_occurred(t) == cutoff_in_chain(Threads[t].splitPoint)

(************************ thread_is_available ******************************)
\* thread_is_available without the helpful-master test
thread_is_available_AnyIdle(slave, master) ==
    Threads[slave].idle /\ slave # master

thread_is_available(slave, master) ==
    IF ~Threads[slave].idle \/ slave = master THEN FALSE
    ELSE LET localActiveSplitPoints == Threads[slave].activeSplitPoints IN
         IF localActiveSplitPoints = 0 THEN TRUE
         ELSE IF ActiveThreads = 2 THEN TRUE
         ELSE master \in SplitPointStack[slave][localActiveSplitPoints - 1].slaves

\* Thread::is_available_to() of thread.cpp (is_searching is the negation of idle)
is_available_to(slave, master) ==
    IF ~Threads[slave].idle THEN FALSE
    ELSE LET localActiveSplitPoints == Threads[slave].activeSplitPoints IN
         \/ localActiveSplitPoints = 0
         \/ master \in SplitPointStack[slave][localActiveSplitPoints - 1].slaves

idle_thread_exists(master) ==
    \E i \in 0 .. (ActiveThreads - 1) : thread_is_available(i, master)

\* an allocation loop that does not look at MaxThreadsPerSplitPoint
RECURSIVE allocate_slaves_Uncapped(_, _, _)
allocate_slaves_Uncapped(i, master, cpus) ==
    IF ~(i < ActiveThreads) THEN {}
    ELSE IF thread_is_available(i, master)
         THEN {i} \cup allocate_slaves_Uncapped(i + 1, master, cpus + 1)
         ELSE allocate_slaves_Uncapped(i + 1, master, cpus)

\* the allocation loop of split(): threads i, i+1, ... in ascending order while
\* cpus < MaxThreadsPerSplitPoint; yields the set of threads booked
RECURSIVE allocate_slaves(_, _, _)
allocate_slaves(i, master, cpus) ==
    IF ~(i < ActiveThreads /\ cpus < MaxThreadsPerSplitPoint) THEN {}
    ELSE IF thread_is_available(i, master)
         THEN {i} \cup allocate_slaves(i + 1, master, cpus + 1)
         ELSE allocate_slaves(i + 1, master, cpus)

(******************************* Init **************************************)
\* no probe is modelled
NoProbe == << >>
\* no single-threaded function is modelled
NoSeq == << >>

InitThread(i) ==
    [idle |-> (i # 0), stop |-> FALSE, workIsWaiting |-> FALSE,
     splitPoint |-> NULL, activeSplitPoints |-> 0]

\* a SplitPoint object of static storage: all fields zero, parent NULL
InitSplitPoint ==
    [parent |-> NULL, finished |-> FALSE, master |-> 0, cpus |-> 0, slaves |-> {},
     moves |-> 0, alpha |-> 0, beta |-> 0, bestValue |-> 0, pvNode |-> FALSE,
     depth |-> 0, mp |-> 0, lock |-> NoThread]

Init ==
    /\ \E c \in ThreadOptions, w \in TopWindows, p \in Positions :
          /\ Explored(c, w, p)
          /\ ActiveThreads = c[1]
          /\ MaxThreadsPerSplitPoint = c[2]
          /\ legalMoves = p.moves
          /\ stack = [i \in ThreadIds |->
                       IF i = 0 THEN << NodeFrame(w[1], w[2], w[3], p.depth) >>
                       ELSE << IdleFrame(NULL) >>]
    /\ AbortSearch = FALSE
    /\ Threads = [i \in ThreadIds |-> InitThread(i)]
    /\ SplitPointStack = [i \in ThreadIds |-> [j \in SlotIds |-> InitSplitPoint]]
    /\ MPLock = NoThread
    /\ handed = [i \in ThreadIds |-> [j \in SlotIds |-> << >>]]
    /\ probe = NoProbe
    /\ seq = NoSeq

(****************** move loop of search_pv()/search() **********************)
\* A "node" frame is an activation of search_pv()/search() in its move loop.
\* pc "zw"/"pvs": a move is picked and its zero-window search() / its search_pv()
\* is running; "split": in split(), before lock_grab(&MPLock); "split_alloc",
\* "split_wake", "split_join": inside split(); "loop": at the loop head;
\* "end": behind the loop.
AtNode(t, pc) == Running(t) /\ Top(t).kind = "node" /\ Top(t).pc = pc

\* the loop condition before get_next_move()
NodeOpen(f) == IF f.pvNode THEN f.alpha < f.beta ELSE f.bestValue < f.beta

\* does the loop head reach its call of thread_should_stop()
HeadPolls(f) == NodeOpen(f) /\ get_next_move(f.cur) # MOVE_NONE

\* the frame after the loop head: the next move is picked, or the loop is left
LoopHead(t, f) ==
    IF HeadPolls(f) /\ ~thread_should_stop(t)
    THEN [f EXCEPT !.cur = mp_advance(f.cur),
                   !.moveCount = f.moveCount + 1,
                   !.pc = IF f.pvNode /\ f.moveCount = 0 THEN "pvs" ELSE "zw"]
    ELSE [f EXCEPT !.cur = IF NodeOpen(f) THEN mp_advance(f.cur) ELSE f.cur,
                   !.pc = "end"]

\* "New best move?" of search_pv()/search()
NodeUpdate(f, v) ==
    [f EXCEPT !.searched = f.searched + 1,
              !.bestValue = Max(f.bestValue, v),
              !.alpha = IF f.pvNode /\ v > f.bestValue /\ v > f.alpha
                        THEN v ELSE f.alpha]

\* "Split?" without the test of the depth
SplitWanted_AnyDepth(t, f) ==
    /\ ActiveThreads > 1
    /\ f.bestValue < f.beta
    /\ idle_thread_exists(t)
    /\ ~AbortSearch

\* the conditions of "Split?" in front of thread_should_stop() and split()
SplitWanted(t, f) ==
    /\ ActiveThreads > 1
    /\ f.bestValue < f.beta
    /\ f.depth >= MinimumSplitDepth
    /\ idle_thread_exists(t)
    /\ ~AbortSearch

\* at a PV node a zero-window result inside the window is re-searched
NeedsPvSearch(f, v) == f.pc \in {"zw", "got"} /\ f.pvNode /\ v > f.alpha /\ v < f.beta

\* the node once the search of its move has returned v: the PV re-search, or
\* the update, "Split?", and the head of the next iteration
NodeAfterMove(t, f, v) ==
    IF NeedsPvSearch(f, v) THEN [f EXCEPT !.pc = "pvs"]
    ELSE LET u == NodeUpdate(f, v) IN
         IF SplitWanted(t, u)
         THEN IF ~thread_should_stop(t) THEN [u EXCEPT !.pc = "split"]
              ELSE LoopHead(t, u)
         ELSE LoopHead(t, u)

\* does NodeAfterMove call thread_should_stop()
NodeAfterPolls(t, f, v) ==
    /\ ~NeedsPvSearch(f, v)
    /\ SplitWanted(t, NodeUpdate(f, v)) \/ HeadPolls(NodeUpdate(f, v))

\* entry of the move loop
NodeLoop(t) ==
    /\ AtNode(t, "loop")
    /\ Threads' = IF HeadPolls(Top(t)) THEN StopNoted(Threads, t) ELSE Threads
    /\ stack' = SetTop(t, LoopHead(t, Top(t)))
    /\ UNCHANGED << probe, seq, legalMoves, ActiveThreads, MaxThreadsPerSplitPoint, AbortSearch,
                    SplitPointStack, MPLock, handed >>

\* futility pruning of search(): the move is skipped ("continue"), by move count
\* or by value; the value case may raise bestValue to futilityValueScaled < beta
NodePrune(t) ==
    /\ AtNode(t, "zw") /\ ~Top(t).pvNode
    /\ \E fv \in SearchValues \cup {-VALUE_INFINITE} :
          LET f == Top(t)
              u == [f EXCEPT !.bestValue = Max(f.bestValue, fv)]
          IN  /\ fv < f.beta
              /\ fv = -VALUE_INFINITE => f.bestValue > -VALUE_INFINITE
              /\ Threads' = IF HeadPolls(u) THEN StopNoted(Threads, t) ELSE Threads
              /\ stack' = SetTop(t, LoopHead(t, u))
    /\ UNCHANGED << probe, seq, legalMoves, ActiveThreads, MaxThreadsPerSplitPoint, AbortSearch,
                    SplitPointStack, MPLock, handed >>

\* the value search_pv()/search() returns after the loop
NodeResults(f) ==
    IF f.moveCount = 0 THEN {value_mated, VALUE_DRAW} ELSE {f.bestValue}

(********************* sp_search() / sp_search_pv() ************************)
\* An "sp" frame is an activation of sp_search()/sp_search_pv().  pc "acq": at
\* the loop head, before lock_grab_bool; "got"/"pvs": a move is held and its
\* search() / search_pv() is running; "fut", "rec": before the lock_grab of a
\* critical section; "brk": before the lock_grab of the break; "exit2": behind
\* sp->cpus--, with the lock held.
AtSp(t, pc) == Running(t) /\ Top(t).kind = "sp" /\ Top(t).pc = pc

\* the worker once the search of its move has returned v
SpAfterMove(t, f, v) ==
    IF NeedsPvSearch(f, v) /\ SP(f.sp).alpha < f.beta
    THEN [f EXCEPT !.alpha = SP(f.sp).alpha, !.pc = "pvs"]
    ELSE IF thread_should_stop(t) THEN [SpFrame(f.sp) EXCEPT !.pc = "brk"]
    ELSE IF v > SP(f.sp).bestValue THEN [SpFrame(f.sp) EXCEPT !.value = v, !.pc = "rec"]
    ELSE SpFrame(f.sp)

SpAfterPolls(f, v) == ~(NeedsPvSearch(f, v) /\ SP(f.sp).alpha < f.beta)

(********************* calls of search_pv()/search() ***********************)
\* the frame on top of the stack of t has a child search running
AtCall(f) ==
    \/ f.kind = "node" /\ f.pc \in {"zw", "pvs"}
    \/ f.kind = "sp" /\ f.pc \in {"got", "pvs"}

\* <<pvNode, alpha, beta>> of the callee: search(-alpha) resp. search(-(beta-1))
\* for a zero-window call, search_pv(-beta, -alpha) for a PV call
ChildWindow(f) ==
    IF f.pc = "pvs" THEN << TRUE, -f.beta, -f.alpha >>
    ELSE LET b == IF f.pvNode THEN -f.alpha ELSE -(f.beta - 1)
         IN  << FALSE, b - 1, b >>

\* the caller's frame once the callee has returned -v
Deliver(t, f, v) ==
    IF f.kind = "node" THEN NodeAfterMove(t, f, v) ELSE SpAfterMove(t, f, v)

DeliverPolls(t, f, v) ==
    IF f.kind = "node" THEN NodeAfterPolls(t, f, v) ELSE SpAfterPolls(f, v)

\* the callee runs to its end without reaching a split: a callee that finds
\* AbortSearch or thread_should_stop at its entry returns Value(0), any other
\* one some value inside the value range
CallAtomic(t) ==
    /\ Running(t) /\ AtCall(Top(t))
    /\ \E v \in SearchValues :
          /\ (AbortSearch \/ thread_should_stop(t)) => v = 0
          /\ stack' = SetTop(t, Deliver(t, Top(t), v))
          /\ Threads' = IF ~AbortSearch \/ DeliverPolls(t, Top(t), v)
                        THEN StopNoted(Threads, t) ELSE Threads
    /\ UNCHANGED << probe, seq, legalMoves, ActiveThreads, MaxThreadsPerSplitPoint, AbortSearch,
                    SplitPointStack, MPLock, handed >>

\* the callee reaches its move loop at a depth where it may split.  The model
\* follows a callee into its move loop where it runs beside other workers, below
\* a split point; a search a node runs itself is summarised by CallAtomic
CallNode(t) ==
    /\ Running(t) /\ AtCall(Top(t)) /\ Top(t).kind = "sp"
    /\ ~AbortSearch /\ ~thread_should_stop(t)
    /\ Top(t).depth - OnePly >= MinimumSplitDepth
    /\ LET w == ChildWindow(Top(t)) IN
          stack' = Push(stack, t, NodeFrame(w[1], w[2], w[3], Top(t).depth - OnePly))
    /\ UNCHANGED << probe, seq, legalMoves, ActiveThreads, MaxThreadsPerSplitPoint, AbortSearch, Threads,
                    SplitPointStack, MPLock, handed >>

\* search_pv()/search() returns to its caller
NodeReturn(t) ==
    /\ AtNode(t, "end") /\ Len(stack[t]) > 1
    /\ \E r \in NodeResults(Top(t)) :
          LET n == Len(stack[t])
              rest == SubSeq(stack[t], 1, n - 1)
          IN  /\ stack' = [stack EXCEPT ![t] =
                             [rest EXCEPT ![n - 1] = Deliver(t, rest[n - 1], -r)]]
              /\ Threads' = IF DeliverPolls(t, rest[n - 1], -r)
                            THEN StopNoted(Threads, t) ELSE Threads
    /\ UNCHANGED << probe, seq, legalMoves, ActiveThreads, MaxThreadsPerSplitPoint, AbortSearch,
                    SplitPointStack, MPLock, handed >>

\* poll() of thread 0 (called from init_node()) raises AbortSearch
Poll ==
    /\ Running(0) /\ AtCall(Top(0)) /\ ~AbortSearch
    /\ AbortSearch' = TRUE
    /\ UNCHANGED << probe, seq, legalMoves, ActiveThreads, MaxThreadsPerSplitPoint, Threads,
                    SplitPointStack, MPLock, stack, handed >>

(******************************* split() ***********************************)
\* the SplitPoint object split() initializes for master t at node f
NewSplitPoint(t, f, old) ==
    [old EXCEPT !.parent = Threads[t].splitPoint,
                !.finished = FALSE,
                !.depth = f.depth,
                !.alpha = IF f.pvNode THEN f.alpha ELSE f.beta - 1,
                !.beta = f.beta,
                !.pvNode = f.pvNode,
                !.bestValue = f.bestValue,
                !.master = t,
                !.mp = f.cur,
                !.moves = f.moveCount,
                !.cpus = 1,
                !.slaves = old.slaves \ (0 .. (ActiveThreads - 1))]

\* lock_grab(&MPLock), then give up (and release), or take the next SplitPoint
\* object and book the master
SplitInit(t) ==
    /\ AtNode(t, "split") /\ MPLock = NoThread
    /\ LET f == Top(t)
           n == Threads[t].activeSplitPoints
           s == << t, n >>
       IN  IF ~idle_thread_exists(t) \/ n >= ACTIVE_SPLIT_POINTS_MAX
           THEN /\ UNCHANGED MPLock
                /\ stack' = SetTop(t, [f EXCEPT !.pc = "loop"])
                /\ UNCHANGED << Threads, SplitPointStack, handed >>
           ELSE /\ SplitPointStack' = SetSP(s, NewSplitPoint(t, f, SP(s)))
                /\ Threads' = [Threads EXCEPT ![t].activeSplitPoints = n + 1,
                                              ![t].idle = FALSE,
                                              ![t].stop = FALSE,
                                              ![t].splitPoint = s]
                /\ handed' = [handed EXCEPT ![t][n] = << >>]
                /\ stack' = SetTop(t, [f EXCEPT !.sp = s, !.pc = "split_alloc",
                                                !.before = Threads[t].splitPoint])
                /\ MPLock' = t
    /\ UNCHANGED << probe, seq, legalMoves, ActiveThreads, MaxThreadsPerSplitPoint, AbortSearch >>

\* under MPLock: the allocation loop, then lock_release(&MPLock)
SplitAllocate(t) ==
    /\ AtNode(t, "split_alloc") /\ MPLock = t
    /\ LET f == Top(t)
           s == f.sp
           B == allocate_slaves(0, t, SP(s).cpus)
       IN  /\ Threads' = [i \in ThreadIds |->
                            IF i \in B
                            THEN [Threads[i] EXCEPT !.idle = FALSE, !.stop = FALSE,
                                                    !.splitPoint = s]
                            ELSE Threads[i]]
           /\ SplitPointStack' = SetSP(s, [SP(s) EXCEPT
                                    !.slaves = SP(s).slaves \cup B,
                                    !.cpus = SP(s).cpus + Cardinality(B)])
           /\ stack' = SetTop(t, [f EXCEPT !.pc = "split_wake"])
    /\ MPLock' = NoThread
    /\ UNCHANGED << probe, seq, legalMoves, ActiveThreads, MaxThreadsPerSplitPoint, AbortSearch, handed >>

\* workIsWaiting for the master and the slaves, then the master enters idle_loop()
SplitWake(t) ==
    /\ AtNode(t, "split_wake")
    /\ LET f == Top(t)
           s == f.sp
       IN  /\ Threads' = [i \in ThreadIds |->
                            IF i < ActiveThreads /\ (i = t \/ i \in SP(s).slaves)
                            THEN [Threads[i] EXCEPT !.workIsWaiting = TRUE]
                            ELSE Threads[i]]
           /\ stack' = Push(SetTop(t, [f EXCEPT !.pc = "split_join"]), t, IdleFrame(s))
    /\ UNCHANGED << probe, seq, legalMoves, ActiveThreads, MaxThreadsPerSplitPoint, AbortSearch,
                    SplitPointStack, MPLock, handed >>

\* the end of split() without the decrement of activeSplitPoints
PopSplitPoint_Kept(T, t, s) ==
    [T EXCEPT ![t].stop = FALSE,
              ![t].idle = FALSE,
              ![t].splitPoint = SP(s).parent]

\* the master's Threads[] entry at the end of split()
PopSplitPoint(T, t, s) ==
    [T EXCEPT ![t].stop = FALSE,
              ![t].idle = FALSE,
              ![t].activeSplitPoints = T[t].activeSplitPoints - 1,
              ![t].splitPoint = SP(s).parent]

\* lock_grab(&MPLock); copy the results out, pop the split point; release;
\* split() returns true and the caller breaks out of its move loop
SplitFinish(t) ==
    /\ AtNode(t, "split_join") /\ MPLock = NoThread
    /\ LET f == Top(t)
           s == f.sp
       IN  /\ Threads' = PopSplitPoint(Threads, t, s)
           /\ stack' = SetTop(t, [f EXCEPT
                            !.alpha = IF f.pvNode THEN SP(s).alpha ELSE f.alpha,
                            !.beta = SP(s).beta,
                            !.bestValue = SP(s).bestValue,
                            !.pc = "end"])
    /\ UNCHANGED MPLock
    /\ UNCHANGED << probe, seq, legalMoves, ActiveThreads, MaxThreadsPerSplitPoint, AbortSearch,
                    SplitPointStack, handed >>

(***************************** idle_loop() *********************************)
AtIdle(t, pc) == Running(t) /\ Top(t).kind = "idle" /\ Top(t).pc = pc

\* work is waiting: launch sp_search()/sp_search_pv() on Threads[t].splitPoint
IdleLaunch(t) ==
    /\ AtIdle(t, "top") /\ Threads[t].workIsWaiting
    /\ Threads' = [Threads EXCEPT ![t].workIsWaiting = FALSE]
    /\ stack' = Push(SetTop(t, [Top(t) EXCEPT !.pc = "ran"]), t,
                     SpFrame(Threads[t].splitPoint))
    /\ UNCHANGED << probe, seq, legalMoves, ActiveThreads, MaxThreadsPerSplitPoint, AbortSearch,
                    SplitPointStack, MPLock, handed >>

\* the split-point search has returned: Threads[threadID].idle = true
IdleSetIdle(t) ==
    /\ AtIdle(t, "ran")
    /\ Threads' = [Threads EXCEPT ![t].idle = TRUE]
    /\ stack' = SetTop(t, [Top(t) EXCEPT !.pc = IF Top(t).sp = NULL THEN "top" ELSE "chk"])
    /\ UNCHANGED << probe, seq, legalMoves, ActiveThreads, MaxThreadsPerSplitPoint, AbortSearch,
                    SplitPointStack, MPLock, handed >>

\* a master found no work waiting and goes on to test its split point
IdleNoWork(t) ==
    /\ AtIdle(t, "top") /\ ~Threads[t].workIsWaiting /\ Top(t).sp # NULL
    /\ stack' = SetTop(t, [Top(t) EXCEPT !.pc = "chk"])
    /\ UNCHANGED << probe, seq, legalMoves, ActiveThreads, MaxThreadsPerSplitPoint, AbortSearch, Threads,
                    SplitPointStack, MPLock, handed >>

\* waitSp != NULL && waitSp->cpus == 0: return to split(); otherwise loop
IdleCheck(t) ==
    /\ AtIdle(t, "chk")
    /\ LET f == Top(t) IN
       IF f.sp # NULL /\ SP(f.sp).cpus = 0
       THEN stack' = [stack EXCEPT ![t] = SubSeq(@, 1, Len(@) - 1)]
       ELSE stack' = SetTop(t, [f EXCEPT !.pc = "top"])
    /\ UNCHANGED << probe, seq, legalMoves, ActiveThreads, MaxThreadsPerSplitPoint, AbortSearch, Threads,
                    SplitPointStack, MPLock, handed >>

(**************** sp_search() / sp_search_pv(): the steps ******************)
\* the loop condition under the split-point lock: sp->bestValue < sp->beta
\* (sp->alpha < sp->beta at a PV split point)
SpOpen(sp) == IF sp.pvNode THEN sp.alpha < sp.beta ELSE sp.bestValue < sp.beta

\* with the lock held behind the loop: a stopped master stops its slaves
RelayStop(T, sp, t) ==
    [i \in ThreadIds |->
        IF sp.master = t /\ thread_should_stop(t) /\ i < ActiveThreads /\ i \in sp.slaves
        THEN [T[i] EXCEPT !.stop = TRUE]
        ELSE IF i = t /\ sp.master = t THEN StopNoted(T, t)[t]
        ELSE T[i]]

\* a worker that leaves without sp->cpus--
LeaveSplitPoint_Uncounted(sp, t) == [sp EXCEPT !.lock = t]

\* behind the loop, with the lock held by t: sp->cpus--
LeaveSplitPoint(sp, t) == [sp EXCEPT !.cpus = sp.cpus - 1, !.lock = t]

\* a move taken without counting it
TakeMove_Uncounted(sp) == [sp EXCEPT !.mp = mp_advance(sp.mp)]

\* (move = sp->mp->get_next_move()) != MOVE_NONE; moveCount = ++sp->moves
TakeMove(sp) == [sp EXCEPT !.mp = mp_advance(sp.mp), !.moves = sp.moves + 1]

\* head of the loop: lock_grab_bool(&sp->lock) and the loop condition; then
\* moveCount = ++sp->moves and lock_release, with localAlpha = sp->alpha for
\* the search of the move; or, the loop left with the lock held, the relay of
\* a stop and sp->cpus--
SpAcquire(t) ==
    /\ AtSp(t, "acq")
    /\ LET f == Top(t)
           s == f.sp
           sp == SP(s)
           try == SpOpen(sp) /\ ~thread_should_stop(t)
           move == get_next_move(sp.mp)
           polled == IF SpOpen(sp) THEN StopNoted(Threads, t) ELSE Threads
       IN  /\ sp.lock = NoThread
           /\ IF try /\ move # MOVE_NONE
              THEN /\ SplitPointStack' = SetSP(s, TakeMove(sp))
                   /\ handed' = [handed EXCEPT ![s[1]][s[2]] =
                                    Append(@, [move |-> move, thread |-> t,
                                               moveCount |-> sp.moves + 1])]
                   /\ stack' = SetTop(t, [f EXCEPT !.moveCount = sp.moves + 1,
                                                   !.pvNode = sp.pvNode,
                                                   !.alpha = sp.alpha,
                                                   !.beta = sp.beta,
                                                   !.depth = sp.depth,
                                                   !.pc = "got"])
                   /\ Threads' = polled
              ELSE /\ SplitPointStack' = SetSP(s, [LeaveSplitPoint(sp, t) EXCEPT
                            !.mp = IF try THEN mp_advance(sp.mp) ELSE sp.mp])
                   /\ stack' = SetTop(t, [SpFrame(s) EXCEPT !.pc = "exit2"])
                   /\ Threads' = RelayStop(polled, sp, t)
                   /\ UNCHANGED handed
    /\ UNCHANGED << probe, seq, legalMoves, ActiveThreads, MaxThreadsPerSplitPoint, AbortSearch, MPLock >>

\* futility pruning of sp_search(): "continue" by move count, or by value with a
\* futilityValueScaled < sp->beta that is recorded when it beats sp->bestValue
SpPrune(t) ==
    /\ AtSp(t, "got") /\ ~Top(t).pvNode
    /\ LET f == Top(t)
           sp == SP(f.sp)
       IN  \E fv \in SearchValues \cup {-VALUE_INFINITE} :
              /\ fv < sp.beta
              /\ fv = -VALUE_INFINITE => sp.bestValue > -VALUE_INFINITE
              /\ stack' = SetTop(t, IF fv > sp.bestValue
                                     THEN [SpFrame(f.sp) EXCEPT !.value = fv, !.pc = "fut"]
                                     ELSE SpFrame(f.sp))
    /\ UNCHANGED << probe, seq, legalMoves, ActiveThreads, MaxThreadsPerSplitPoint, AbortSearch, Threads,
                    SplitPointStack, MPLock, handed >>

\* the critical section of the futility value without its second test
SpFutility_Overwrite(t) ==
    /\ AtSp(t, "fut")
    /\ LET f == Top(t)
           s == f.sp
           sp == SP(s)
       IN  /\ sp.lock = NoThread
           /\ SplitPointStack' = SetSP(s, [sp EXCEPT !.bestValue = f.value])
           /\ stack' = SetTop(t, SpFrame(s))
    /\ UNCHANGED << probe, seq, legalMoves, ActiveThreads, MaxThreadsPerSplitPoint, AbortSearch, Threads,
                    MPLock, handed >>

\* lock_grab; if (futilityValueScaled > sp->bestValue) sp->bestValue = ...; release
SpFutility(t) ==
    /\ AtSp(t, "fut")
    /\ LET f == Top(t)
           s == f.sp
           sp == SP(s)
       IN  /\ sp.lock = NoThread
           /\ SplitPointStack' = SetSP(s, [sp EXCEPT !.bestValue = Max(sp.bestValue, f.value)])
           /\ stack' = SetTop(t, SpFrame(s))
    /\ UNCHANGED << probe, seq, legalMoves, ActiveThreads, MaxThreadsPerSplitPoint, AbortSearch, Threads,
                    MPLock, handed >>

\* thread_should_stop after the search: lock_grab, break, and behind the loop
\* the relay of a stop and sp->cpus--
SpBreak(t) ==
    /\ AtSp(t, "brk")
    /\ LET s == Top(t).sp
           sp == SP(s)
       IN  /\ sp.lock = NoThread
           /\ SplitPointStack' = SetSP(s, LeaveSplitPoint(sp, t))
           /\ Threads' = RelayStop(Threads, sp, t)
           /\ stack' = SetTop(t, [SpFrame(s) EXCEPT !.pc = "exit2"])
    /\ UNCHANGED << probe, seq, legalMoves, ActiveThreads, MaxThreadsPerSplitPoint, AbortSearch, MPLock, handed >>

\* the threads a cutoff found by t asks to stop
Siblings(sp, t) ==
    { i \in 0 .. (ActiveThreads - 1) : i # t /\ (i = sp.master \/ i \in sp.slaves) }

\* a cutoff test that misses value = beta
IsCutoff_Above(sp, v) == v > sp.beta

\* is the value a cutoff that stops the siblings
IsCutoff(sp, v) == IF sp.pvNode THEN v > sp.alpha /\ v >= sp.beta ELSE v >= sp.beta

\* the split point after "New best move?" of a worker with value v
RecordValue(sp, v) ==
    [sp EXCEPT !.bestValue = v,
               !.finished = IF IsCutoff(sp, v) THEN TRUE ELSE sp.finished,
               !.alpha = IF sp.pvNode /\ v > sp.alpha THEN v ELSE sp.alpha]

\* the critical section "New best move?"
SpRecord(t) ==
    /\ AtSp(t, "rec")
    /\ LET f == Top(t)
           s == f.sp
           sp == SP(s)
           better == f.value > sp.bestValue
           take == better /\ ~thread_should_stop(t)
       IN  /\ sp.lock = NoThread
           /\ SplitPointStack' = IF take THEN SetSP(s, RecordValue(sp, f.value))
                                 ELSE SplitPointStack
           /\ Threads' = [i \in ThreadIds |->
                            IF take /\ IsCutoff(sp, f.value) /\ i \in Siblings(sp, t)
                            THEN [Threads[i] EXCEPT !.stop = TRUE]
                            ELSE IF i = t /\ better
                            THEN StopNoted(Threads, t)[t]
                            ELSE Threads[i]]
           /\ stack' = SetTop(t, SpFrame(s))
    /\ UNCHANGED << probe, seq, legalMoves, ActiveThreads, MaxThreadsPerSplitPoint, AbortSearch, MPLock, handed >>

\* sp->slaves[threadID] = 0; lock_release(&sp->lock); return to idle_loop()
SpReturn(t) ==
    /\ AtSp(t, "exit2")
    /\ LET s == Top(t).sp IN
       /\ SP(s).lock = t
       /\ SplitPointStack' = SetSP(s, [SP(s) EXCEPT !.slaves = SP(s).slaves \ {t},
                                                    !.lock = NoThread])
    /\ stack' = [stack EXCEPT ![t] = SubSeq(@, 1, Len(@) - 1)]
    /\ UNCHANGED << probe, seq, legalMoves, ActiveThreads, MaxThreadsPerSplitPoint, AbortSearch, Threads,
                    MPLock, handed >>

(******************************* Next **************************************)
Step(t) ==
    \/ NodeLoop(t) \/ NodePrune(t) \/ CallAtomic(t) \/ CallNode(t) \/ NodeReturn(t)
    \/ SplitInit(t) \/ SplitAllocate(t) \/ SplitWake(t) \/ SplitFinish(t)
    \/ IdleLaunch(t) \/ IdleSetIdle(t) \/ IdleNoWork(t) \/ IdleCheck(t)
    \/ SpAcquire(t) \/ SpPrune(t) \/ SpFutility(t) \/ SpBreak(t) \/ SpRecord(t)
    \/ SpReturn(t)

Next == Poll \/ \E t \in ThreadIds : Step(t)

Spec == Init /\ [][Next]_vars

\* the searches of the deepest and of the widest position with the zero
\* window, in which the thread cap leaves a thread out of the first split point
InitFair ==
    /\ Init
    /\ ActiveThreads = MaxThreads
    /\ MaxThreadsPerSplitPoint < MaxThreads
    /\ ~stack[0][1].pvNode
    /\ stack[0][1].depth \in {RootDepth, MinimumSplitDepth}

\* fair scheduling: a thread that can take a step eventually takes one
SpecFair == InitFair /\ [][Next]_vars /\ \A t \in ThreadIds : WF_vars(Step(t))

(***************************************************************************)
(* Part 2: the transposition-table probe of search()                       *)
(***************************************************************************)
VALUE_MATE == MateValue
PLY_MAX == PlyMax
value_mate_in(ply) == VALUE_MATE - ply
value_mated_in(ply) == -VALUE_MATE + ply

\* enum ValueType: bit 0 marks an upper bound, bit 1 a lower bound, bit 2 a
\* stored static evaluation
VALUE_TYPE_NONE == 0
VALUE_TYPE_UPPER == 1
VALUE_TYPE_LOWER == 2
VALUE_TYPE_EXACT == 3
VALUE_TYPE_EVAL == 4
VALUE_TYPE_EV_UP == 5
VALUE_TYPE_EV_LO == 6
ValueTypes == VALUE_TYPE_NONE .. VALUE_TYPE_EV_LO

is_lower_bound(vt) == (vt \div VALUE_TYPE_LOWER) % 2 = 1
is_upper_bound(vt) == (vt \div VALUE_TYPE_UPPER) % 2 = 1

\* a mate value stored relative to the node is made relative to the root
value_from_tt(v, ply) ==
    IF v >= value_mate_in(PLY_MAX) THEN v - ply
    ELSE IF v <= value_mated_in(PLY_MAX) THEN v + ply
    ELSE v

\* ok_to_use_TT with the test of the depth alone in its first part
ok_to_use_TT_DepthOnly(tte, depth, beta, ply) ==
    LET v == value_from_tt(tte.value, ply) IN
    /\ tte.depth >= depth
    /\ \/ is_lower_bound(tte.type) /\ v >= beta
       \/ is_upper_bound(tte.type) /\ v < beta

ok_to_use_TT(tte, depth, beta, ply) ==
    LET v == value_from_tt(tte.value, ply) IN
    /\ \/ tte.depth >= depth
       \/ v >= Max(value_mate_in(PLY_MAX), beta)
       \/ v < Min(value_mated_in(PLY_MAX), beta)
    /\ \/ is_lower_bound(tte.type) /\ v >= beta
       \/ is_upper_bound(tte.type) /\ v < beta

\* TT.retrieve() found no entry
NoEntry == << >>
TTValues == (-VALUE_MATE) .. VALUE_MATE
TTEntries ==
    [value : TTValues, type : ValueTypes, depth : 1 .. MaxProbeDepth]

\* the pool variables while a single probe is looked at
PoolAtRest ==
    /\ legalMoves = [d \in 1 .. RootDepth |-> 0]
    /\ ActiveThreads = 1
    /\ MaxThreadsPerSplitPoint = 1
    /\ stack = [i \in ThreadIds |-> << >>]
    /\ AbortSearch = FALSE
    /\ Threads = [i \in ThreadIds |-> InitThread(i)]
    /\ SplitPointStack = [i \in ThreadIds |-> [j \in SlotIds |-> InitSplitPoint]]
    /\ MPLock = NoThread
    /\ handed = [i \in ThreadIds |-> [j \in SlotIds |-> << >>]]

\* search() at its transposition table lookup: the arguments and what
\* TT.retrieve() returns
InitTT ==
    /\ PoolAtRest
    /\ seq = NoSeq
    /\ \E e \in TTEntries \cup {NoEntry}, d \in 1 .. MaxProbeDepth,
          b \in (-VALUE_MATE - 1) .. (VALUE_MATE + 1), p \in 0 .. (PLY_MAX - 1) :
          probe = [pc |-> "lookup", tte |-> e, depth |-> d, beta |-> b, ply |-> p,
                   ret |-> 0]

\* if (tte && ok_to_use_TT(tte, depth, beta, ply)) return value_from_tt(...)
TTProbe ==
    /\ probe.pc = "lookup"
    /\ probe' = IF probe.tte # NoEntry
                    /\ ok_to_use_TT(probe.tte, probe.depth, probe.beta, probe.ply)
                 THEN [probe EXCEPT !.pc = "returned",
                                    !.ret = value_from_tt(probe.tte.value, probe.ply)]
                 ELSE [probe EXCEPT !.pc = "searching"]
    /\ UNCHANGED << pool, seq >>

SpecTT == InitTT /\ [][TTProbe]_vars

(***************************************************************************)
(* Part 3: one activation of search_pv(), search() or qsearch()            *)
(*                                                                         *)
(* seq holds the arguments, the facts about the position that the code     *)
(* asks for (is_draw, is_check, the legal moves, the static evaluation,    *)
(* the entry TT.retrieve() finds), the locals and, at the end, the value   *)
(* returned and the entry stored.  The searches of the children are not    *)
(* run: a child returns any value of ChildValues.  Depths are 0 and one    *)
(* ply, so that the null-move search, internal iterative deepening and     *)
(* the singular extension (depth > OnePly) do not apply; split() is        *)
(* Part 1.  There is no excluded move.                                     *)
(***************************************************************************)
\* VALUE_INFINITE on the scale of the mate values
ValueInfinite == VALUE_MATE + 1
\* no TT.store() was made
NoStore == << >>

value_is_mate(value) ==
    value <= value_mated_in(PLY_MAX) \/ value >= value_mate_in(PLY_MAX)

\* tte->type() & VALUE_TYPE_EVAL
is_eval(vt) == (vt \div VALUE_TYPE_EVAL) % 2 = 1

refine_eval(tte, defaultEval, ply) ==
    IF tte = NoEntry THEN defaultEval
    ELSE LET v == value_from_tt(tte.value, ply) IN
         IF \/ is_lower_bound(tte.type) /\ v >= defaultEval
            \/ is_upper_bound(tte.type) /\ v < defaultEval
         THEN v ELSE defaultEval

RazorDepth == 4 * OnePly
NullMoveMargin == Margin
FutilityMargins(d) == IF d < OnePly THEN 0 ELSE Margin
\* NullMoveMargin + 16 * depth, on the scale of the values
RazorMargin(d) == NullMoveMargin

\* the bounds of the windows a node is called with
WindowBounds == { -ValueInfinite, -1, 0, 1, ValueInfinite }
\* the static evaluations of the positions
NodeEvals == { -1, 1 }
\* what the search of a child at ply + 1 returns, negated: between being
\* mated at ply + 2 and mating at ply + 1
ChildValues(ply) == { value_mated_in(ply + 2), -1, 0, 1, value_mate_in(ply + 1) }
\* the entries TT.retrieve() finds
NodeEntries ==
    [value : { -1, 1 },
     type : { VALUE_TYPE_UPPER, VALUE_TYPE_LOWER, VALUE_TYPE_EVAL },
     depth : { 0, OnePly }]
\* tte->move(): the stores of UPPER and EVAL entries carry MOVE_NONE
ttMoveOf(tte) ==
    IF tte # NoEntry /\ tte.type = VALUE_TYPE_LOWER THEN 1 ELSE MOVE_NONE

\* a call of search_pv(alpha, beta, depth, ply) or search(beta, depth, ply);
\* stopAt tells when AbortSearch / thread_should_stop become true
InitNode ==
    /\ PoolAtRest
    /\ probe = NoProbe
    /\ \E fn \in {"search_pv", "search"}, b \in WindowBounds,
          a \in (-ValueInfinite) .. ValueInfinite,
          d \in {0, OnePly}, p \in {0, 1, PLY_MAX - 1},
          draw \in BOOLEAN, check \in BOOLEAN, n \in 0 .. (MaxMoves - 1),
          ev \in NodeEvals, e \in NodeEntries \cup {NoEntry},
          stopAt \in {"never", "entry", "loop", "exit"}, nm \in BOOLEAN :
          /\ IF fn = "search_pv" THEN a \in WindowBounds /\ a < b /\ nm
                                ELSE a = b - 1
          /\ seq = [pc |-> "call", entry |-> fn, fn |-> fn, a0 |-> a, b0 |-> b,
                    alpha |-> a, beta |-> b, oldAlpha |-> a, pvNode |-> (fn = "search_pv"),
                    depth |-> d, ply |-> p, isDraw |-> draw, isCheck |-> check,
                    legal |-> n, moves |-> n, eval |-> ev, tte |-> e, stopAt |-> stopAt,
                    staticValue |-> -ValueInfinite, staticFromTT |-> FALSE,
                    bestValue |-> -ValueInfinite, moveCount |-> 0,
                    pvMove |-> MOVE_NONE, ret |-> 0, exit |-> "none",
                    stored |-> NoStore, allowNullmove |-> nm]

\* return v through the exit named how
Return(s, v, how) == [s EXCEPT !.pc = "returned", !.ret = v, !.exit = how]

\* if (depth < OnePly) return qsearch(...); qsearch: pvNode = (beta - alpha != 1)
Enter ==
    /\ seq # NoSeq /\ seq.pc = "call"
    /\ seq' = IF seq.depth < OnePly
              THEN [seq EXCEPT !.fn = "qsearch", !.depth = 0,
                               !.pvNode = (seq.beta - seq.alpha # 1),
                               !.oldAlpha = seq.alpha, !.pc = "init"]
              ELSE [seq EXCEPT !.pc = "init"]
    /\ UNCHANGED << pool, probe >>

\* init_node() whose only early exits are the stop and the draw
init_node_DrawOnly ==
    /\ seq # NoSeq /\ seq.pc = "init"
    /\ seq' = IF seq.stopAt = "entry" THEN Return(seq, 0, "abort")
              ELSE IF seq.isDraw
                   THEN Return(seq, VALUE_DRAW, "draw")
                   ELSE [seq EXCEPT !.pc = IF seq.fn = "qsearch" THEN "probe" ELSE "mdp"]
    /\ UNCHANGED << pool, probe >>

\* init_node() and the early exits behind it
init_node ==
    /\ seq # NoSeq /\ seq.pc = "init"
    /\ seq' = IF seq.stopAt = "entry" THEN Return(seq, 0, "abort")
              ELSE IF seq.isDraw \/ seq.ply >= PLY_MAX - 1
                   THEN Return(seq, VALUE_DRAW, "draw")
                   ELSE [seq EXCEPT !.pc = IF seq.fn = "qsearch" THEN "probe" ELSE "mdp"]
    /\ UNCHANGED << pool, probe >>

\* mate distance pruning of search_pv() and of search()
MateDistancePruning ==
    /\ seq # NoSeq /\ seq.pc = "mdp"
    /\ seq' =
         IF seq.fn = "search_pv"
         THEN LET alpha == Max(value_mated_in(seq.ply), seq.alpha)
                  beta == Min(value_mate_in(seq.ply + 1), seq.beta)
              IN  IF alpha >= beta
                  THEN Return([seq EXCEPT !.alpha = alpha, !.beta = beta], alpha, "mdp")
                  ELSE [seq EXCEPT !.oldAlpha = seq.alpha, !.alpha = alpha,
                                   !.beta = beta, !.pc = "probe"]
         ELSE IF value_mated_in(seq.ply) >= seq.beta THEN Return(seq, seq.beta, "mdp")
         ELSE IF value_mate_in(seq.ply + 1) < seq.beta THEN Return(seq, seq.beta - 1, "mdp")
         ELSE [seq EXCEPT !.pc = "probe"]
    /\ UNCHANGED << pool, probe >>

\* the transposition table lookup: search_pv() takes the move only, search()
\* and a qsearch() that is no pvNode return the value of a usable entry
Lookup ==
    /\ seq # NoSeq /\ seq.pc = "probe"
    /\ seq' =
         IF /\ seq.fn # "search_pv"
            /\ (seq.fn = "qsearch" => ~seq.pvNode)
            /\ seq.tte # NoEntry
            /\ ok_to_use_TT(seq.tte, seq.depth, seq.beta, seq.ply)
         THEN Return(seq, value_from_tt(seq.tte.value, seq.ply), "tt")
         ELSE [seq EXCEPT !.pc = IF seq.fn = "search_pv" THEN "loop" ELSE "static"]
    /\ UNCHANGED << pool, probe >>

\* TT.store(key, value_to_tt(bestValue, ply), type, depth, move)
Store(s, type, d, move) ==
    [s EXCEPT !.stored = [type |-> type, depth |-> d, move |-> move]]

\* the static evaluation: of qsearch() with its stand pat, of search() with
\* refine_eval()
StaticEval ==
    /\ seq # NoSeq /\ seq.pc = "static"
    /\ LET cached == seq.tte # NoEntry /\ is_eval(seq.tte.type)
           base == IF cached THEN value_from_tt(seq.tte.value, seq.ply) ELSE seq.eval
       IN  IF seq.fn = "qsearch"
           THEN LET sv == IF seq.isCheck THEN -ValueInfinite ELSE base
                    s == [seq EXCEPT !.staticValue = sv, !.bestValue = sv,
                                     !.staticFromTT = ~seq.isCheck /\ cached]
                IN  IF sv >= seq.beta
                    THEN \E quiet \in BOOLEAN :
                           seq' = IF ~seq.isCheck /\ seq.tte = NoEntry /\ quiet
                                  THEN Return(Store(s, VALUE_TYPE_EV_LO, -127 * OnePly,
                                                    MOVE_NONE), sv, "standpat")
                                  ELSE Return(s, sv, "standpat")
                    ELSE seq' = [s EXCEPT !.alpha = Max(seq.alpha, sv), !.pc = "loop"]
           ELSE seq' = IF seq.isCheck THEN [seq EXCEPT !.pc = "prune"]
                       ELSE [seq EXCEPT !.staticValue = refine_eval(seq.tte, base, seq.ply),
                                        !.staticFromTT = cached, !.pc = "prune"]
    /\ UNCHANGED << pool, probe >>

\* static null move pruning of search()
StaticNullMoveApplies(s) ==
    /\ ~s.isCheck
    /\ s.allowNullmove
    /\ s.depth < RazorDepth
    /\ s.staticValue - FutilityMargins(s.depth) >= s.beta

StaticNullMove ==
    /\ seq # NoSeq /\ seq.pc = "prune"
    /\ StaticNullMoveApplies(seq)
    /\ seq' = Return(seq, seq.staticValue - FutilityMargins(seq.depth), "staticnull")
    /\ UNCHANGED << pool, probe >>

\* the condition of the null-move search of search(); it needs depth > OnePly,
\* so that no activation explored here runs it
NullMoveApplies(s) ==
    /\ s.allowNullmove
    /\ s.depth > OnePly
    /\ ~s.isCheck
    /\ ~value_is_mate(s.beta)
    /\ s.staticValue >= s.beta - NullMoveMargin

\* razoring of search(), tried when the null-move search is not
RazoringApplies(s) ==
    /\ ~NullMoveApplies(s)
    /\ ~value_is_mate(s.beta)
    /\ ~s.isCheck
    /\ s.depth < RazorDepth
    /\ s.staticValue < s.beta - RazorMargin(s.depth)
    /\ ttMoveOf(s.tte) = MOVE_NONE

\* v = qsearch(rbeta-1, rbeta): return v when v < rbeta.  The previous move
\* and a pawn on the 7th rank can forbid it (NoPruning)
Razoring ==
    /\ seq # NoSeq /\ seq.pc = "prune"
    /\ ~StaticNullMoveApplies(seq)
    /\ RazoringApplies(seq)
    /\ LET rbeta == seq.beta - RazorMargin(seq.depth) IN
       \E v \in NodeEvals \cup ChildValues(seq.ply) :
          seq' = IF v < rbeta THEN Return(seq, v, "razor")
                 ELSE [seq EXCEPT !.pc = "loop"]
    /\ UNCHANGED << pool, probe >>

NoPruning ==
    /\ seq # NoSeq /\ seq.pc = "prune"
    /\ ~StaticNullMoveApplies(seq)
    /\ seq' = [seq EXCEPT !.pc = "loop"]
    /\ UNCHANGED << pool, probe >>

\* the condition of the move loop
LoopOpen(s) == IF s.fn = "search" THEN s.bestValue < s.beta ELSE s.alpha < s.beta
LoopRuns(s) ==
    /\ LoopOpen(s)
    /\ s.moves > 0
    /\ ~(s.fn # "qsearch" /\ s.stopAt = "loop")

\* "New best move?" of the three functions
NewBest(s, v, move) ==
    IF v <= s.bestValue THEN s
    ELSE IF s.fn = "search"
         THEN [s EXCEPT !.bestValue = v,
                        !.pvMove = IF v >= s.beta THEN move ELSE @]
         ELSE [s EXCEPT !.bestValue = v, !.alpha = Max(@, v),
                        !.pvMove = IF v > s.alpha THEN move ELSE @]

\* one move of the loop is searched; a futility-pruned move sets bestValue
\* like a searched move that fails low
SearchMove ==
    /\ seq # NoSeq /\ seq.pc = "loop"
    /\ LoopRuns(seq)
    /\ \E v \in ChildValues(seq.ply) :
          seq' = NewBest([seq EXCEPT !.moves = @ - 1, !.moveCount = @ + 1],
                         v, seq.moveCount + 1)
    /\ UNCHANGED << pool, probe >>

\* one move of the loop is counted and skipped by continue: move count
\* pruning of search(), negative SEE in qsearch()
SkipMove ==
    /\ seq # NoSeq /\ seq.pc = "loop"
    /\ LoopRuns(seq)
    /\ \/ seq.fn = "search" /\ ~seq.isCheck /\ seq.bestValue > value_mated_in(PLY_MAX)
       \/ seq.fn = "qsearch" /\ (~seq.isCheck \/ seq.bestValue # -ValueInfinite)
    /\ seq' = [seq EXCEPT !.moves = @ - 1, !.moveCount = @ + 1]
    /\ UNCHANGED << pool, probe >>

\* the no-move test of every function, applied to all of them
NoMoveExit_InCheckOnly(s) == s.moveCount = 0 /\ s.isCheck

\* behind the loop, "if (moveCount == 0)": qsearch() asks for a check as well
NoMoveExit(s) ==
    IF s.fn = "qsearch" THEN s.moveCount = 0 /\ s.isCheck ELSE s.moveCount = 0

\* if (AbortSearch || thread_should_stop(threadID)) return bestValue;
StoppedAtExit(s) == s.fn # "qsearch" /\ s.stopAt \in {"loop", "exit"}

\* a bound type that takes a value equal to alpha for an exact one
PvBoundType_Strict(bestValue, oldAlpha, beta) ==
    IF bestValue < oldAlpha THEN VALUE_TYPE_UPPER
    ELSE IF bestValue >= beta THEN VALUE_TYPE_LOWER
    ELSE VALUE_TYPE_EXACT

\* the bound type search_pv() and qsearch() store
PvBoundType(bestValue, oldAlpha, beta) ==
    IF bestValue <= oldAlpha THEN VALUE_TYPE_UPPER
    ELSE IF bestValue >= beta THEN VALUE_TYPE_LOWER
    ELSE VALUE_TYPE_EXACT

\* the bound type search() stores
NonPvBoundType(bestValue, beta) ==
    IF bestValue < beta THEN VALUE_TYPE_UPPER ELSE VALUE_TYPE_LOWER

\* behind the loop: the no-move result, the abort test, the store, the return
FinishAs(s, upperType) ==
    IF NoMoveExit(s)
    THEN Return(s, IF s.isCheck THEN value_mated_in(s.ply) ELSE VALUE_DRAW, "nomoves")
    ELSE IF StoppedAtExit(s) THEN Return(s, s.bestValue, "stopped")
    ELSE LET type == IF s.fn = "search" THEN NonPvBoundType(s.bestValue, s.beta)
                     ELSE PvBoundType(s.bestValue, s.oldAlpha, s.beta)
         IN  IF type = VALUE_TYPE_UPPER
             THEN Return(Store(s, upperType, s.depth, MOVE_NONE), s.bestValue, "best")
             ELSE Return(Store(s, type, s.depth, s.pvMove), s.bestValue, "best")

\* qsearch() stores EV_UP when bestValue is still the static evaluation and
\* the evaluation had no futility margin
UpperTypes(s) ==
    IF s.fn = "qsearch" /\ s.bestValue = s.staticValue
    THEN {VALUE_TYPE_EV_UP, VALUE_TYPE_UPPER} ELSE {VALUE_TYPE_UPPER}

Finish ==
    /\ seq # NoSeq /\ seq.pc = "loop"
    /\ ~LoopRuns(seq)
    /\ \E upperType \in UpperTypes(seq) : seq' = FinishAs(seq, upperType)
    /\ UNCHANGED << pool, probe >>

NextNode ==
    \/ Enter \/ init_node \/ MateDistancePruning \/ Lookup \/ StaticEval
    \/ StaticNullMove \/ Razoring \/ NoPruning \/ SearchMove \/ SkipMove \/ Finish

SpecNode == InitNode /\ [][NextNode]_vars

(***************************************************************************)
(* Part 4 (specification SpecRoot): id_loop() and root_search()            *)
(*                                                                         *)
(* seq holds the globals Iteration, ValueByIteration, AspirationDelta,     *)
(* AbortSearch, MaxDepth and MultiPV, the root move list, ss[0].pv[0] and  *)
(* the locals of root_search().  The search of a root move is one step    *)
(* that returns any value of RootValues and during which poll() may set    *)
(* AbortSearch.  The root position has at least one legal move, there is   *)
(* no pondering, and the time management of id_loop() is a free choice to  *)
(* stop at the end of an iteration.  Two fields are history variables:     *)
(* completed, the first move of the sorted root move list at the end of    *)
(* the last iteration that was searched to its end, and lastStep, the step *)
(* of the last widening of the window in this call of root_search().       *)
(***************************************************************************)
\* scaled VALUE_KNOWN_WIN: half of VALUE_MATE, as in the program
VALUE_KNOWN_WIN == VALUE_MATE \div 2

abs(x) == IF x < 0 THEN -x ELSE x

RECURSIVE Pow2(_)
\* 1 << n
Pow2(n) == IF n <= 0 THEN 1 ELSE 2 * Pow2(n - 1)

\* the values a search of a root move returns: mated, level, mating
RootValues == { value_mated_in(2), 0, value_mate_in(1) }
\* the values of the beta counter read after the search of a root move
BetaCounts == { 0, 1 }
\* the settings of "go depth" (0: none) and of the MultiPV option
MaxDepths == { 0, 1, 3 }
MultiPVs == { 1, 2 }

\* RootMove::operator<() with score-only comparison
RootMoveLess_ScoreOnly(m1, m2) == m1.score < m2.score

\* RootMove::operator<()
RootMoveLess(m1, m2) ==
    IF m1.score # m2.score THEN m1.score < m2.score
                           ELSE m1.theirBeta <= m2.theirBeta

RECURSIVE InsertRootMove(_, _, _)
\* the inner loop of sort_multipv(): rm sinks from index j (moves are numbered
\* from 1 here) past every move that is less than it
InsertRootMove(moves, rm, j) ==
    IF j > 1 /\ RootMoveLess(moves[j - 1], rm)
    THEN InsertRootMove([moves EXCEPT ![j] = moves[j - 1]], rm, j - 1)
    ELSE [moves EXCEPT ![j] = rm]

RECURSIVE SortFrom(_, _, _)
\* the outer loop of sort_multipv(), from index i to index last
SortFrom(moves, i, last) ==
    IF i > last THEN moves
    ELSE SortFrom(InsertRootMove(moves, moves[i], i), i + 1, last)

\* RootMoveList::sort_multipv(n): insertion sort of moves[0..n]
sort_multipv(moves, n) == SortFrom(moves, 2, n + 1)

\* RootMoveList::sort()
sort(moves) == sort_multipv(moves, Len(moves) - 1)

\* the root move lists the constructor builds before it sorts them
ScoredRootMoves(n) ==
    { [k \in 1 .. n |-> [move |-> k, score |-> sc[k], theirBeta |-> 0]] :
         sc \in [1 .. n -> RootValues] }

\* the step of the next widening: AspirationDelta * (1 << researchCount)
WideningStep_Linear(delta, researchCount) == delta * (researchCount + 1)

WideningStep(delta, researchCount) == delta * Pow2(researchCount)

\* the aspiration delta of id_loop()
NewAspirationDelta(v1, v2, v3) ==
    LET prevDelta1 == v1 - v2
        prevDelta2 == v2 - v3
        d == Max(abs(prevDelta1) + abs(prevDelta2) \div 2, MinAspirationDelta)
    IN  ((d + GrainSize - 1) \div GrainSize) * GrainSize

\* id_loop() uses an aspiration window in this iteration
UseAspiration(s, it) ==
    /\ s.MultiPV = 1
    /\ it >= 6
    /\ abs(s.ValueByIteration[it - 1]) < VALUE_KNOWN_WIN

UseTimeManagement(s) == s.MaxDepth = 0

\* id_loop() before its loop, for the depth limits mds, the MultiPV settings
\* mpvs and a position whose beta counters take the values counts: the root
\* moves are scored and sorted, Iteration is 1
RootInit(mds, mpvs, counts) ==
    /\ PoolAtRest
    /\ probe = NoProbe
    /\ \E n \in 1 .. RootMoves, md \in mds, mpv \in mpvs :
       \E l \in ScoredRootMoves(n) :
          LET rml == sort(l) IN
          seq = [pc |-> "iterate", MaxDepth |-> md, MultiPV |-> mpv, rml |-> rml,
                 betaCounts |-> counts,
                 Iteration |-> 1,
                 ValueByIteration |-> [k \in 1 .. PLY_MAX |->
                                          IF k = 1 THEN rml[1].score ELSE 0],
                 AspirationDelta |-> 0, AbortSearch |-> FALSE, pv0 |-> MOVE_NONE,
                 alpha |-> 0, oldAlpha |-> 0, beta |-> 0, researchCount |-> 0,
                 i |-> 0, value |-> 0, ret |-> 0, bestmove |-> MOVE_NONE,
                 completed |-> rml[1].move, lastStep |-> 0]

InitRoot == RootInit(MaxDepths, MultiPVs, BetaCounts)

\* the searches without a depth limit, of positions whose beta counters stay 0
InitRootFair == RootInit({0}, MultiPVs, {0})

\* while (Iteration < PLY_MAX): sort, next iteration, window, root_search()
IterationStart ==
    /\ seq # NoSeq /\ seq.pc = "iterate"
    /\ seq' =
         IF seq.Iteration < PLY_MAX
         THEN LET it == seq.Iteration + 1
                  v == seq.ValueByIteration
                  delta == IF UseAspiration(seq, it)
                           THEN NewAspirationDelta(v[it - 1], v[it - 2], v[it - 3])
                           ELSE seq.AspirationDelta
                  a == IF UseAspiration(seq, it)
                       THEN Max(v[it - 1] - delta, -ValueInfinite) ELSE -ValueInfinite
                  b == IF UseAspiration(seq, it)
                       THEN Min(v[it - 1] + delta, ValueInfinite) ELSE ValueInfinite
              IN  [seq EXCEPT !.rml = sort(seq.rml), !.Iteration = it,
                              !.AspirationDelta = delta,
                              !.alpha = a, !.oldAlpha = a, !.beta = b,
                              !.researchCount = 0, !.i = 0, !.lastStep = 0,
                              !.pc = "move"]
         ELSE [seq EXCEPT !.pc = "finish"]
    /\ UNCHANGED << pool, probe >>

\* the head of the loop over the root moves: a move is picked, or skipped
\* with score -VALUE_INFINITE when alpha >= beta
NextRootMove ==
    /\ seq # NoSeq /\ seq.pc = "move"
    /\ seq.i < Len(seq.rml) /\ ~seq.AbortSearch
    /\ seq' = IF seq.alpha >= seq.beta
              THEN [seq EXCEPT !.rml[seq.i + 1].score = -ValueInfinite, !.i = seq.i + 1]
              ELSE [seq EXCEPT !.value = -ValueInfinite, !.pc = "search"]
    /\ UNCHANGED << pool, probe >>

\* the searches of the move inside the fail high loop; poll() may end them
SearchRootMove ==
    /\ seq # NoSeq /\ seq.pc = "search"
    /\ \E v \in RootValues, abort \in BOOLEAN :
          seq' = [seq EXCEPT !.value = v, !.AbortSearch = abort,
                             !.alpha = IF (seq.i < seq.MultiPV \/ seq.value > seq.alpha)
                                          /\ seq.MultiPV > 1
                                       THEN -ValueInfinite ELSE seq.alpha,
                             !.pc = "searched"]
    /\ UNCHANGED << pool, probe >>

\* the move fails high: score and PV are updated, beta is widened, re-search
FailHigh ==
    /\ seq # NoSeq /\ seq.pc = "searched"
    /\ ~(seq.AbortSearch \/ seq.value < seq.beta)
    /\ LET rc == seq.researchCount + 1 IN
       seq' = [seq EXCEPT !.rml[seq.i + 1].score = seq.value,
                          !.pv0 = seq.rml[seq.i + 1].move,
                          !.researchCount = rc,
                          !.beta = Min(seq.beta + WideningStep(seq.AspirationDelta, rc),
                                       ValueInfinite),
                          !.lastStep = WideningStep(seq.AspirationDelta, rc),
                          !.pc = "search"]
    /\ UNCHANGED << pool, probe >>

\* the rest of the loop body without the test of AbortSearch before it
RecordRootMove_KeepAborted ==
    /\ seq # NoSeq /\ seq.pc = "searched"
    /\ seq.AbortSearch \/ seq.value < seq.beta
    /\ LET k == seq.i + 1 IN
       seq' = IF seq.value <= seq.alpha /\ seq.i >= seq.MultiPV
              THEN [seq EXCEPT !.rml[k].score = -ValueInfinite,
                               !.i = seq.i + 1, !.pc = "move"]
              ELSE [seq EXCEPT !.rml[k].score = seq.value, !.pv0 = seq.rml[k].move,
                               !.alpha = Max(seq.alpha, seq.value),
                               !.i = seq.i + 1, !.pc = "move"]
    /\ UNCHANGED << pool, probe >>

\* the rest of the loop body after the fail high loop
RecordRootMove ==
    /\ seq # NoSeq /\ seq.pc = "searched"
    /\ seq.AbortSearch \/ seq.value < seq.beta
    /\ \E their \in seq.betaCounts :
       LET k == seq.i + 1
           counted == [seq.rml EXCEPT ![k].theirBeta = their]
           scored == [counted EXCEPT ![k].score = seq.value]
           sorted == sort_multipv(scored, seq.i)
       IN  seq' =
             IF seq.AbortSearch THEN [seq EXCEPT !.pc = "move"]
             ELSE IF seq.value <= seq.alpha /\ seq.i >= seq.MultiPV
             THEN [seq EXCEPT !.rml = [counted EXCEPT ![k].score = -ValueInfinite],
                              !.i = seq.i + 1, !.pc = "move"]
             ELSE IF seq.MultiPV = 1
             THEN [seq EXCEPT !.rml = scored, !.pv0 = seq.rml[k].move,
                              !.alpha = Max(seq.alpha, seq.value),
                              !.i = seq.i + 1, !.pc = "move"]
             ELSE [seq EXCEPT !.rml = sorted, !.pv0 = seq.rml[k].move,
                              !.alpha = sorted[Min(seq.i, seq.MultiPV - 1) + 1].score,
                              !.i = seq.i + 1, !.pc = "move"]
    /\ UNCHANGED << pool, probe >>

\* the loop over the moves is left and alpha was not raised: alpha is widened
FailLow ==
    /\ seq # NoSeq /\ seq.pc = "move"
    /\ ~(seq.i < Len(seq.rml) /\ ~seq.AbortSearch)
    /\ ~(seq.AbortSearch \/ seq.alpha > seq.oldAlpha)
    /\ LET rc == seq.researchCount + 1
           a == Max(seq.alpha - WideningStep(seq.AspirationDelta, rc), -ValueInfinite)
       IN  seq' = [seq EXCEPT !.researchCount = rc, !.alpha = a, !.oldAlpha = a,
                              !.lastStep = WideningStep(seq.AspirationDelta, rc),
                              !.i = 0]
    /\ UNCHANGED << pool, probe >>

\* root_search() returns alpha
RootSearchReturns ==
    /\ seq # NoSeq /\ seq.pc = "move"
    /\ ~(seq.i < Len(seq.rml) /\ ~seq.AbortSearch)
    /\ seq.AbortSearch \/ seq.alpha > seq.oldAlpha
    /\ seq' = [seq EXCEPT !.ret = seq.alpha, !.pc = "iterated"]
    /\ UNCHANGED << pool, probe >>

\* id_loop() after root_search() without the test of MaxDepth
IterationEnd_NoDepthLimit ==
    /\ seq # NoSeq /\ seq.pc = "iterated"
    /\ \E stopSearch \in (IF UseTimeManagement(seq) THEN BOOLEAN ELSE {FALSE}) :
       seq' =
         IF seq.AbortSearch THEN [seq EXCEPT !.pc = "finish"]
         ELSE LET s == [seq EXCEPT !.ValueByIteration[seq.Iteration] = seq.ret,
                                   !.completed = sort(seq.rml)[1].move]
              IN  IF stopSearch THEN [s EXCEPT !.pc = "finish"]
                                ELSE [s EXCEPT !.pc = "iterate"]
    /\ UNCHANGED << pool, probe >>

\* id_loop() after root_search(): the value is saved, the loop goes on or ends
IterationEnd ==
    /\ seq # NoSeq /\ seq.pc = "iterated"
    /\ \E stopSearch \in (IF UseTimeManagement(seq) THEN BOOLEAN ELSE {FALSE}) :
       seq' =
         IF seq.AbortSearch THEN [seq EXCEPT !.pc = "finish"]
         ELSE LET s == [seq EXCEPT !.ValueByIteration[seq.Iteration] = seq.ret,
                                   !.completed = sort(seq.rml)[1].move]
              IN  IF stopSearch \/ (seq.MaxDepth # 0 /\ seq.Iteration >= seq.MaxDepth)
                  THEN [s EXCEPT !.pc = "finish"]
                  ELSE [s EXCEPT !.pc = "iterate"]
    /\ UNCHANGED << pool, probe >>

\* id_loop() behind its loop: rml.sort() and the move printed as bestmove
BestMove ==
    /\ seq # NoSeq /\ seq.pc = "finish"
    /\ LET sorted == sort(seq.rml) IN
       seq' = [seq EXCEPT !.rml = sorted,
                          !.bestmove = IF seq.pv0 = MOVE_NONE THEN sorted[1].move
                                                              ELSE seq.pv0,
                          !.pc = "done"]
    /\ UNCHANGED << pool, probe >>

NextRoot ==
    \/ IterationStart \/ NextRootMove \/ SearchRootMove \/ FailHigh
    \/ RecordRootMove \/ FailLow \/ RootSearchReturns \/ IterationEnd \/ BestMove

SpecRoot == InitRoot /\ [][NextRoot]_vars

\* every step of id_loop() and root_search() is taken in the end: the thread
\* that runs them is never suspended for ever
SpecRootFair == InitRootFair /\ [][NextRoot]_vars /\ WF_vars(NextRoot)

(***************************************************************************)
(* Part 5 (specification SpecPoll): the limits of think() and poll()       *)
(*                                                                         *)
(* seq holds the globals think() sets from its parameters (MaxNodes,       *)
(* ExactMaxTime, InfiniteSearch, PonderSearch, UseTimeManagement,          *)
(* NodesBetweenPolls), the counters of init_node() (NodesSincePoll and the *)
(* node counts of thread 0 and of the other threads), the search time t in *)
(* milliseconds, Iteration, AbortSearch and Quit.  The search itself is    *)
(* reduced to its calls of init_node() and to the increments of Iteration  *)
(* by id_loop(); the clock advances at any moment.  The judgement of the   *)
(* time management on the clocks of the game (noMoreTime, StopOnPonderhit) *)
(* is an input of poll().  Three fields are history variables: polls, the  *)
(* number of calls of poll(); lastPollTime, the search time at the last    *)
(* call; stopSeen, whether poll() has read "stop" or "quit".               *)
(***************************************************************************)
\* the node limits think() is called with; 0 is the value of a search started
\* without the limit
NodeLimits == { 0, 1, MaxNodeCount - 1 }
\* the movetime limits think() is called with, in milliseconds
TimeLimits == { 0, 1, 2 }
\* what poll() reads from the standard input
Commands == { "none", "stop", "quit", "ponderhit" }

InitPoll ==
    /\ PoolAtRest
    /\ probe = NoProbe
    /\ \E maxNodes \in NodeLimits, maxTime \in TimeLimits,
          infinite \in BOOLEAN, ponder \in BOOLEAN :
          seq = [pc |-> "think",
                 MaxNodes |-> maxNodes, ExactMaxTime |-> maxTime,
                 InfiniteSearch |-> infinite, PonderSearch |-> ponder,
                 UseTimeManagement |-> (maxTime = 0 /\ maxNodes = 0 /\ ~infinite),
                 NodesBetweenPolls |-> IF maxNodes # 0
                                       THEN Min(maxNodes, PollInterval)
                                       ELSE PollInterval,
                 NodesSincePoll |-> 0, nodes |-> [threadID \in {0, 1} |-> 0],
                 t |-> 0, Iteration |-> 1,
                 AbortSearch |-> FALSE, Quit |-> FALSE,
                 polls |-> 0, lastPollTime |-> -1, stopSeen |-> FALSE]

nodes_searched(s) == s.nodes[0] + s.nodes[1]

\* Iteration >= 3 && UseTimeManagement && (noMoreTime || StopOnPonderhit)
ponderhit(s, timeUp) ==
    [s EXCEPT !.PonderSearch = FALSE,
              !.AbortSearch = s.AbortSearch
                              \/ (s.Iteration >= 3 /\ s.UseTimeManagement /\ timeUp)]

\* the test at the end of poll(), without the test of MaxNodes
ShouldStop_AnyNodeCount(s, timeUp) ==
    \/ s.Iteration >= 3 /\ s.UseTimeManagement /\ timeUp
    \/ s.ExactMaxTime # 0 /\ s.t >= s.ExactMaxTime
    \/ s.Iteration >= 3 /\ nodes_searched(s) >= s.MaxNodes

\* the test at the end of poll()
ShouldStop(s, timeUp) ==
    \/ s.Iteration >= 3 /\ s.UseTimeManagement /\ timeUp
    \/ s.ExactMaxTime # 0 /\ s.t >= s.ExactMaxTime
    \/ s.Iteration >= 3 /\ s.MaxNodes # 0 /\ nodes_searched(s) >= s.MaxNodes

\* poll() without the return of a ponder search before the test of the limits
poll_NoPonderTest(s, cmd, timeUp) ==
    LET polled == [s EXCEPT !.polls = s.polls + 1, !.lastPollTime = s.t,
                            !.stopSeen = s.stopSeen \/ cmd \in {"stop", "quit"}]
        input == CASE cmd = "quit" -> [polled EXCEPT !.AbortSearch = TRUE,
                                                     !.PonderSearch = FALSE,
                                                     !.Quit = TRUE]
                   [] cmd = "stop" -> [polled EXCEPT !.AbortSearch = TRUE,
                                                     !.PonderSearch = FALSE]
                   [] cmd = "ponderhit" -> ponderhit(polled, timeUp)
                   [] OTHER -> polled
    IN  IF cmd = "quit"
        THEN input
        ELSE [input EXCEPT !.AbortSearch = input.AbortSearch
                                           \/ ShouldStop(input, timeUp)]

\* poll(): s after the call, when the input holds the command cmd
poll(s, cmd, timeUp) ==
    LET polled == [s EXCEPT !.polls = s.polls + 1, !.lastPollTime = s.t,
                            !.stopSeen = s.stopSeen \/ cmd \in {"stop", "quit"}]
        input == CASE cmd = "quit" -> [polled EXCEPT !.AbortSearch = TRUE,
                                                     !.PonderSearch = FALSE,
                                                     !.Quit = TRUE]
                   [] cmd = "stop" -> [polled EXCEPT !.AbortSearch = TRUE,
                                                     !.PonderSearch = FALSE]
                   [] cmd = "ponderhit" -> ponderhit(polled, timeUp)
                   [] OTHER -> polled
    IN  IF cmd = "quit" \/ input.PonderSearch
        THEN input
        ELSE [input EXCEPT !.AbortSearch = input.AbortSearch
                                           \/ ShouldStop(input, timeUp)]

\* think() has set the globals and calls id_loop()
StartSearch ==
    /\ seq # NoSeq /\ seq.pc = "think"
    /\ seq' = [seq EXCEPT !.pc = "search"]
    /\ UNCHANGED << pool, probe >>

\* the clock advances by a millisecond
Tick ==
    /\ seq # NoSeq /\ seq.pc = "search" /\ ~seq.AbortSearch
    /\ seq.t < MaxSearchClock
    /\ seq' = [seq EXCEPT !.t = seq.t + 1]
    /\ UNCHANGED << pool, probe >>

\* id_loop() starts the next iteration
NextIteration ==
    /\ seq # NoSeq /\ seq.pc = "search" /\ ~seq.AbortSearch
    /\ seq.Iteration < PLY_MAX
    /\ seq' = [seq EXCEPT !.Iteration = seq.Iteration + 1]
    /\ UNCHANGED << pool, probe >>

\* init_node() of a node of thread threadID
CountNode ==
    /\ seq # NoSeq /\ seq.pc = "search" /\ ~seq.AbortSearch
    /\ \E threadID \in {0, 1}, cmd \in Commands, timeUp \in BOOLEAN :
          /\ seq.nodes[threadID] < MaxNodeCount
          /\ LET counted == [seq EXCEPT !.nodes[threadID] = seq.nodes[threadID] + 1]
             IN  seq' = IF threadID # 0
                        THEN counted
                        ELSE IF seq.NodesSincePoll + 1 >= seq.NodesBetweenPolls
                             THEN [poll(counted, cmd, timeUp) EXCEPT !.NodesSincePoll = 0]
                             ELSE [counted EXCEPT !.NodesSincePoll = seq.NodesSincePoll + 1]
    /\ UNCHANGED << pool, probe >>

NextPoll == StartSearch \/ Tick \/ NextIteration \/ CountNode

SpecPoll == InitPoll /\ [][NextPoll]_vars

(***************************************************************************)
(* Part 6 (specification SpecHistory): the History tables of history.cpp   *)
(*                                                                         *)
(* seq holds the three tables of the History object H: history,            *)
(* successCount and failureCount, indexed by piece and destination square. *)
(* A step is one call of success() or failure() by update_history().  One  *)
(* field is a history variable: last, the call of the last step with the   *)
(* history table it found.                                                 *)
(***************************************************************************)
\* scaled HistoryMax of history.h
HistoryMax == HistoryLimit
HistoryPieces == 1 .. HistorySize
HistorySquares == 0 .. (HistorySize - 1)
\* the depths update_history() is called with
HistoryDepths == 1 .. MaxHistoryDepth

\* History::clear()
clear ==
    [history |-> [p \in HistoryPieces |-> [to \in HistorySquares |-> 0]],
     successCount |-> [p \in HistoryPieces |-> [to \in HistorySquares |-> 0]],
     failureCount |-> [p \in HistoryPieces |-> [to \in HistorySquares |-> 0]]]

\* History::success() without the guard against overflow
success_Unguarded(h, p, to, d) ==
    [h EXCEPT !.history[p][to] = h.history[p][to] + d * d,
              !.successCount[p][to] = h.successCount[p][to] + 1]

\* History::success() with the guard testing for a score above HistoryMax
success_GuardAbove(h, p, to, d) ==
    LET raised == [h EXCEPT !.history[p][to] = h.history[p][to] + d * d,
                            !.successCount[p][to] = h.successCount[p][to] + 1]
    IN  IF raised.history[p][to] > HistoryMax
        THEN [raised EXCEPT !.history = [i \in HistoryPieces |->
                                           [j \in HistorySquares |->
                                              raised.history[i][j] \div 4]]]
        ELSE raised

\* History::success()
success(h, p, to, d) ==
    LET raised == [h EXCEPT !.history[p][to] = h.history[p][to] + d * d,
                            !.successCount[p][to] = h.successCount[p][to] + 1]
    IN  IF raised.history[p][to] >= HistoryMax
        THEN [raised EXCEPT !.history = [i \in HistoryPieces |->
                                           [j \in HistorySquares |->
                                              raised.history[i][j] \div 4]]]
        ELSE raised

\* History::failure()
failure(h, p, to) ==
    [h EXCEPT !.failureCount[p][to] = h.failureCount[p][to] + 1]

\* History::move_ordering_score()
move_ordering_score(h, p, to) == h.history[p][to]

\* History::ok_to_prune()
ok_to_prune(h, p, to, d) == d * h.successCount[p][to] < h.failureCount[p][to]

\* the calls of success() and failure() so far
HistoryCalls(s) ==
    LET RECURSIVE Sum(_, _)
        Sum(f, S) == IF S = {} THEN 0
                     ELSE LET x == CHOOSE y \in S : TRUE
                          IN  f[x] + Sum(f, S \ {x})
        calls == [e \in HistoryPieces \X HistorySquares |->
                     s.H.successCount[e[1]][e[2]] + s.H.failureCount[e[1]][e[2]]]
    IN  Sum(calls, HistoryPieces \X HistorySquares)

\* the History object after its constructor
InitHistory ==
    /\ PoolAtRest
    /\ probe = NoProbe
    /\ seq = [pc |-> "history", H |-> clear,
              last |-> [op |-> "clear", p |-> 1, to |-> 0, d |-> 0,
                        before |-> clear.history]]

\* update_history() registers the move that produced the beta cutoff
Success ==
    /\ seq # NoSeq /\ seq.pc = "history"
    /\ HistoryCalls(seq) < MaxHistoryCalls
    /\ \E p \in HistoryPieces, to \in HistorySquares, d \in HistoryDepths :
          seq' = [seq EXCEPT !.H = success(seq.H, p, to, d),
                             !.last = [op |-> "success", p |-> p, to |-> to, d |-> d,
                                       before |-> seq.H.history]]
    /\ UNCHANGED << pool, probe >>

\* update_history() registers a move searched before the move of the cutoff
Failure ==
    /\ seq # NoSeq /\ seq.pc = "history"
    /\ HistoryCalls(seq) < MaxHistoryCalls
    /\ \E p \in HistoryPieces, to \in HistorySquares :
          seq' = [seq EXCEPT !.H = failure(seq.H, p, to),
                             !.last = [op |-> "failure", p |-> p, to |-> to, d |-> 0,
                                       before |-> seq.H.history]]
    /\ UNCHANGED << pool, probe >>

\* id_loop() clears the tables at the start of a search
Clear ==
    /\ seq # NoSeq /\ seq.pc = "history"
    /\ seq.last.op # "clear"
    /\ seq' = [seq EXCEPT !.H = clear,
                          !.last = [op |-> "clear", p |-> 1, to |-> 0, d |-> 0,
                                    before |-> seq.H.history]]
    /\ UNCHANGED << pool, probe >>

NextHistory == Success \/ Failure \/ Clear

SpecHistory == InitHistory /\ [][NextHistory]_vars

(***************************************************************************)
(* Part 7 (specification SpecUci): the command loop of src/uci.cpp         *)
(*                                                                         *)
(* seq holds the root position of execute_uci_command(), the values of the *)
(* UCI options, the pointer SetupState into the ring of StateInfo objects  *)
(* and the last line written to the output.  A position is the FEN it was  *)
(* set up from and the moves made since; a move token is legal when it is  *)
(* a move of the side to move.  A command is its sequence of tokens.  The  *)
(* commands that start a search or only print (go, perft, d, eval, key,    *)
(* uci, flip) are left out.  One field is a history variable: last, the    *)
(* command of the last step with the position and the options it found.    *)
(***************************************************************************)
StartPositionFEN == "startfen"
\* the FEN strings of the commands: the second has Black to move
Fens == { StartPositionFEN, "blackfen" }
\* the move tokens of the commands: a move of White, a move of Black and a
\* token that is no move
MoveTokens == { "e2e4", "e7e5", "zz" }
OptionNames == { "Hash", "Ponder" }
OptionValues == { "true", "false" }
\* MOVE_NONE, for moves written as tokens
UciMoveNone == "(none)"

\* the sequences over S of at most n elements
RECURSIVE SeqsUpTo(_, _)
SeqsUpTo(S, n) ==
    IF n = 0 THEN { << >> }
    ELSE LET shorter == SeqsUpTo(S, n - 1)
         IN  shorter \cup { Append(l, x) : l \in shorter, x \in S }

MoveLists == SeqsUpTo(MoveTokens, MaxMoveList)

UciCommands ==
    { << "quit" >>, << "ucinewgame" >>, << "isready" >>, << "bogus" >>,
      << "position" >>, << "position", "bogus" >>, << "position", "startpos" >> }
    \cup { << "position", "startpos", "moves" >> \o ml : ml \in MoveLists }
    \cup { << "position", "fen", f, "moves" >> \o ml : f \in Fens, ml \in MoveLists }
    \cup { << "setoption", "name", n, "value", v >> :
              n \in OptionNames \cup { "Bogus" }, v \in OptionValues }
    \cup { << "setoption", "name", n >> : n \in OptionNames \cup { "Bogus" } }

\* Position::from_fen()
from_fen(fen) == [fen |-> fen, played |-> << >>]

WhiteToMove(pos) == (pos.fen = StartPositionFEN) = (Len(pos.played) % 2 = 0)

\* move_from_uci(): the move the token names, MOVE_NONE if it names no legal
\* move of the position
move_from_uci(pos, token) ==
    IF (WhiteToMove(pos) /\ token = "e2e4") \/ (~WhiteToMove(pos) /\ token = "e7e5")
    THEN token
    ELSE UciMoveNone

\* Position::do_move()
do_move(pos, m) == [pos EXCEPT !.played = Append(pos.played, m)]

\* the move loop of set_position() that accepts the legal moves of the list
\* and passes over the others
RECURSIVE MakeMoves_SkipIllegal(_, _)
MakeMoves_SkipIllegal(s, tokens) ==
    IF tokens = << >> THEN s
    ELSE IF move_from_uci(s.pos, Head(tokens)) = UciMoveNone
         THEN MakeMoves_SkipIllegal(s, Tail(tokens))
         ELSE MakeMoves_SkipIllegal(
                 [s EXCEPT !.pos = do_move(s.pos, move_from_uci(s.pos, Head(tokens))),
                           !.SetupState = (s.SetupState + 1) % StateRingSize],
                 Tail(tokens))

\* the move loop of set_position(): it ends at the first token that is no
\* legal move
RECURSIVE MakeMoves(_, _)
MakeMoves(s, tokens) ==
    IF tokens = << >> \/ move_from_uci(s.pos, Head(tokens)) = UciMoveNone
    THEN s
    ELSE MakeMoves([s EXCEPT !.pos = do_move(s.pos, move_from_uci(s.pos, Head(tokens))),
                             !.SetupState = (s.SetupState + 1) % StateRingSize],
                   Tail(tokens))

\* the tokens of up after its first n tokens
Rest(up, n) == IF Len(up) <= n THEN << >> ELSE SubSeq(up, n + 1, Len(up))

\* the tokens of up before its first token t, all of them if there is none
RECURSIVE Until(_, _)
Until(up, t) ==
    IF up = << >> \/ Head(up) = t THEN << >>
    ELSE << Head(up) >> \o Until(Tail(up), t)

\* the tokens of l as one string, the tokens separated by sep
RECURSIVE Join(_)
Join(l) ==
    IF l = << >> THEN ""
    ELSE IF Len(l) = 1 THEN l[1]
         ELSE l[1] \o " " \o Join(Tail(l))

\* set_position(): up holds the tokens after "position"
set_position(s, up) ==
    IF up # << >> /\ Head(up) = "startpos"
    THEN MakeMoves([s EXCEPT !.pos = from_fen(StartPositionFEN)], Rest(up, 2))
    ELSE IF up # << >> /\ Head(up) = "fen"
         THEN LET fen == Until(Tail(up), "moves")
              IN  MakeMoves([s EXCEPT !.pos = from_fen(Join(fen))],
                            Rest(up, 2 + Len(fen)))
         ELSE s

\* set_option(): up holds the tokens after "setoption"
set_option(s, up) ==
    LET name == Join(Until(Rest(up, 1), "value"))
        value == Join(Rest(up, 2 + Len(Until(Rest(up, 1), "value"))))
    IN  IF name \in DOMAIN s.options
        THEN [s EXCEPT !.options[name] = IF value = "" THEN "true" ELSE value]
        ELSE [s EXCEPT !.out = << "No such option:", name >>]

\* execute_uci_command()
execute_uci_command(s, cmd) ==
    LET token == Head(cmd)
        up == Tail(cmd)
    IN  CASE token = "quit" -> [s EXCEPT !.pc = "quit"]
          [] token = "ucinewgame" -> [s EXCEPT !.pos = from_fen(StartPositionFEN)]
          [] token = "isready" -> [s EXCEPT !.out = << "readyok" >>]
          [] token = "position" -> set_position(s, up)
          [] token = "setoption" -> set_option(s, up)
          [] OTHER -> [s EXCEPT !.out = << "Unknown command:", Join(cmd) >>]

\* the state at the first call of execute_uci_command()
InitUci ==
    /\ PoolAtRest
    /\ probe = NoProbe
    /\ seq = [pc |-> "uci", pos |-> from_fen(StartPositionFEN),
              options |-> [n \in OptionNames |-> "false"],
              SetupState |-> 0, out |-> << >>,
              last |-> [cmd |-> << >>, pos |-> from_fen(StartPositionFEN),
                        options |-> [n \in OptionNames |-> "false"]]]

\* the command loop reads a line and executes it
Execute ==
    /\ seq # NoSeq /\ seq.pc = "uci"
    /\ \E cmd \in UciCommands :
          seq' = [execute_uci_command([seq EXCEPT !.out = << >>], cmd)
                     EXCEPT !.last = [cmd |-> cmd, pos |-> seq.pos,
                                      options |-> seq.options]]
    /\ UNCHANGED << pool, probe >>

NextUci == Execute

SpecUci == InitUci /\ [][NextUci]_vars

(***************************************************************************)
(* Part 8 (specification SpecMagics): do_magics() of src/bitboard.cpp      *)
(*                                                                         *)
(* The board has BoardSize ranks and files and a Bitboard has one bit per  *)
(* square, so that the products of do_magics() are taken modulo            *)
(* 2^(BoardSize^2) as the program takes them modulo 2^64.  A bitboard is   *)
(* the set of its squares; BB gives its number.  seq holds the arrays      *)
(* magic, attack (as offsets into attTabl), mask and shift, the table      *)
(* attTabl, and the locals s and offset of do_magics().  A step is one     *)
(* pass of the do-while loop of a square with the magic pick_magic()       *)
(* returns.  The generator rk of do_magics() is the place seq.rk in the    *)
(* sequence MagicNumbers, taken round, from a seed that Init chooses; the  *)
(* test by which pick_magic() throws numbers away is left out.  outside    *)
(* records a write beyond the sub-table of the square.                     *)
(***************************************************************************)
\* the numbers the generator of pick_magic() returns in the model
MagicNumbers == << 8740, 1, 8610, 1632, 2114, 96 >>

\* pick_magic(): the next number of the generator and the generator after it
pick_magic(rk) == [magic |-> MagicNumbers[rk], rk |-> (rk % Len(MagicNumbers)) + 1]

square_rank(n, s) == s \div n
square_file(n, s) == s % n
square_is_ok(n, s) == s >= 0 /\ s < n * n
square_distance(n, s1, s2) ==
    Max(abs(square_rank(n, s1) - square_rank(n, s2)),
        abs(square_file(n, s1) - square_file(n, s2)))

\* DELTA_N, DELTA_E, DELTA_S, DELTA_W
RDeltas(n) == << n, 1, -n, -1 >>
\* DELTA_NE, DELTA_SE, DELTA_SW, DELTA_NW
BDeltas(n) == << n + 1, 1 - n, -n - 1, n - 1 >>

rank_bb(n, s) == { x \in 0 .. (n * n - 1) : square_rank(n, x) = square_rank(n, s) }
file_bb(n, s) == { x \in 0 .. (n * n - 1) : square_file(n, x) = square_file(n, s) }
\* (Rank1BB | Rank8BB) & ~rank_bb(s) | (FileABB | FileHBB) & ~file_bb(s)
Excluded(n, s) ==
    { x \in 0 .. (n * n - 1) :
         \/ square_rank(n, x) \in { 0, n - 1 } /\ square_rank(n, x) # square_rank(n, s)
         \/ square_file(n, x) \in { 0, n - 1 } /\ square_file(n, x) # square_file(n, s) }

\* the number of the bitboard b
RECURSIVE BB(_)
BB(b) == IF b = {} THEN 0
         ELSE LET s == CHOOSE x \in b : TRUE IN Pow2(s) + BB(b \ {s})

\* a * b modulo 2^w
RECURSIVE MulMod(_, _, _)
MulMod(a, b, w) ==
    IF b = 0 THEN 0
    ELSE (2 * MulMod(a, b \div 2, w) + (b % 2) * a) % Pow2(w)

\* the while loop of sliding_attacks() of one direction that goes on behind
\* an occupied square
RECURSIVE Slide_ThroughOccupied(_, _, _, _, _)
Slide_ThroughOccupied(n, s, delta, occupied, excluded) ==
    IF square_is_ok(n, s) /\ square_distance(n, s, s - delta) = 1 /\ s \notin excluded
    THEN {s} \cup Slide_ThroughOccupied(n, s + delta, delta, occupied, excluded)
    ELSE {}

\* the while loop of sliding_attacks() of one direction
RECURSIVE Slide(_, _, _, _, _)
Slide(n, s, delta, occupied, excluded) ==
    IF square_is_ok(n, s) /\ square_distance(n, s, s - delta) = 1 /\ s \notin excluded
    THEN {s} \cup (IF s \in occupied THEN {}
                   ELSE Slide(n, s + delta, delta, occupied, excluded))
    ELSE {}

sliding_attacks(n, sq, occupied, deltas, excluded) ==
    UNION { Slide(n, sq + deltas[i], deltas[i], occupied, excluded) : i \in 1 .. 4 }

\* submask(): the squares of mask whose number in mask is a set bit of key
RECURSIVE submask(_, _)
submask(mask, key) ==
    IF mask = {} THEN {}
    ELSE LET s == CHOOSE x \in mask : \A y \in mask : x <= y
         IN  (IF key % 2 = 1 THEN {s} ELSE {})
                \cup submask(mask \ {s}, key \div 2)

\* mask[s] of do_magics()
MaskOf(n, s, deltas) == sliding_attacks(n, s, {}, deltas, Excluded(n, s))

\* unsigned((occupancy * magic) >> shift)
MagicIndex(n, occupancy, magic, shift) ==
    MulMod(BB(occupancy), magic, n * n) \div Pow2(shift)

\* the sum of maxKey over the squares from s on: the entries do_magics() uses
RECURSIVE TableEntries(_, _, _)
TableEntries(n, s, deltas) ==
    IF s = n * n THEN 0
    ELSE Pow2(Cardinality(MaskOf(n, s, deltas))) + TableEntries(n, s + 1, deltas)

\* the second for loop over key with its break: the table and the key it ends with
RECURSIVE FillAttacks(_, _, _, _, _, _)
FillAttacks(n, r, magic, key, maxKey, deltas) ==
    IF key = maxKey THEN [r EXCEPT !.key = key]
    ELSE LET occupancy == submask(r.mask[r.s], key)
             proof == sliding_attacks(n, r.s, occupancy, deltas, {})
             index == r.offset + MagicIndex(n, occupancy, magic, r.shift[r.s])
         IN  IF index \notin DOMAIN r.attTabl \/ index >= r.offset + maxKey
             THEN [r EXCEPT !.outside = TRUE, !.key = key]
             ELSE IF r.attTabl[index] = {}
                  THEN FillAttacks(n, [r EXCEPT !.attTabl[index] = proof],
                                   magic, key + 1, maxKey, deltas)
                  ELSE IF r.attTabl[index] # proof
                       THEN [r EXCEPT !.key = key]
                       ELSE FillAttacks(n, r, magic, key + 1, maxKey, deltas)

Sliders == { "rook", "bishop" }
DeltasOf(n, slider) == IF slider = "rook" THEN RDeltas(n) ELSE BDeltas(n)

\* do_magics() is called with the arrays of a slider
InitMagics ==
    /\ PoolAtRest
    /\ probe = NoProbe
    /\ \E slider \in Sliders, seed \in 1 .. Len(MagicNumbers) :
          seq = [pc |-> "magics", slider |-> slider, rk |-> seed, s |-> 0, offset |-> 0, key |-> 0,
                 magic |-> [x \in 0 .. (BoardSize * BoardSize - 1) |-> 0],
                 attack |-> [x \in 0 .. (BoardSize * BoardSize - 1) |-> 0],
                 mask |-> [x \in 0 .. (BoardSize * BoardSize - 1) |-> {}],
                 shift |-> [x \in 0 .. (BoardSize * BoardSize - 1) |-> 0],
                 attTabl |-> [x \in 0 .. (TableEntries(BoardSize, 0,
                                            DeltasOf(BoardSize, slider)) - 1) |-> {}],
                 outside |-> FALSE]

\* one pass of the do-while loop for the square s; the pass that ends with
\* key = maxKey is the last of the square
TryMagic ==
    /\ seq # NoSeq /\ seq.pc = "magics" /\ seq.s < BoardSize * BoardSize
    /\ LET picked == pick_magic(seq.rk)
           m == picked.magic
       IN
          LET n == BoardSize
              deltas == DeltasOf(n, seq.slider)
              mask == MaskOf(n, seq.s, deltas)
              maxKey == Pow2(Cardinality(mask))
              cleared == [seq EXCEPT !.rk = picked.rk,
                                     !.attack[seq.s] = seq.offset,
                                     !.mask[seq.s] = mask,
                                     !.shift[seq.s] = n * n - Cardinality(mask),
                                     !.magic[seq.s] = m % Pow2(n * n),
                                     !.attTabl = [x \in DOMAIN seq.attTabl |->
                                                    IF x >= seq.offset /\ x < seq.offset + maxKey
                                                    THEN {} ELSE seq.attTabl[x]]]
              filled == FillAttacks(n, cleared, m % Pow2(n * n), 0, maxKey, deltas)
          IN  seq' = IF filled.key = maxKey
                     THEN [filled EXCEPT !.s = seq.s + 1, !.offset = seq.offset + maxKey,
                                         !.key = 0]
                     ELSE filled
    /\ UNCHANGED << pool, probe >>

\* do_magics() returns
MagicsDone ==
    /\ seq # NoSeq /\ seq.pc = "magics" /\ seq.s = BoardSize * BoardSize
    /\ seq' = [seq EXCEPT !.pc = "magics done"]
    /\ UNCHANGED << pool, probe >>

NextMagics == TryMagic \/ MagicsDone

SpecMagics == InitMagics /\ [][NextMagics]_vars

(***************************************************************************)
(* Part 9 (specification SpecPonder): pondering in id_loop() and poll()    *)
(*                                                                         *)
(* seq holds the globals of Part 5 and, in addition, MaxDepth, the number  *)
(* of root moves moveCount and StopOnPonderhit.  The search of thread 0 is *)
(* reduced to its calls of init_node(), which call poll() of Part 5, and   *)
(* to the end of each iteration of id_loop().  Three fields are history    *)
(* variables: ponder, the parameter think() was called with; received, the *)
(* commands poll() and wait_for_stop_or_ponderhit() have read; bestmove,   *)
(* whether id_loop() has printed the best move.                            *)
(***************************************************************************)
\* the depth limits think() is called with; 0 is no limit
PonderDepths == { 0, 3 }
\* rml.move_count()
MoveCounts == { 0, 1 }
\* the lines wait_for_stop_or_ponderhit() reads; "eof" is the end of the input
InputLines == { "stop", "quit", "ponderhit", "isready", "eof" }

InitPonder ==
    /\ PoolAtRest
    /\ probe = NoProbe
    /\ \E maxNodes \in NodeLimits, maxTime \in TimeLimits, maxDepth \in PonderDepths,
          infinite \in BOOLEAN, ponder \in BOOLEAN, moveCount \in MoveCounts :
          seq = [pc |-> "id_loop",
                 MaxNodes |-> maxNodes, ExactMaxTime |-> maxTime, MaxDepth |-> maxDepth,
                 InfiniteSearch |-> infinite, PonderSearch |-> ponder,
                 UseTimeManagement |-> (maxTime = 0 /\ maxDepth = 0 /\ maxNodes = 0
                                          /\ ~infinite),
                 NodesBetweenPolls |-> IF maxNodes # 0
                                       THEN Min(maxNodes, PollInterval)
                                       ELSE PollInterval,
                 NodesSincePoll |-> 0, nodes |-> [threadID \in {0, 1} |-> 0],
                 t |-> 0, Iteration |-> 1, StopOnPonderhit |-> FALSE,
                 AbortSearch |-> FALSE, Quit |-> FALSE,
                 polls |-> 0, lastPollTime |-> -1, stopSeen |-> FALSE,
                 moveCount |-> moveCount, after |-> "none",
                 ponder |-> ponder, received |-> {}, bestmove |-> FALSE]

\* the test of wait at the end of id_loop() that does not look at PonderSearch
MustWait_InfiniteOnly(s) == ~s.AbortSearch /\ s.InfiniteSearch

\* !AbortSearch && (PonderSearch || InfiniteSearch)
MustWait(s) == ~s.AbortSearch /\ (s.PonderSearch \/ s.InfiniteSearch)

\* id_loop() up to the first iteration of its loop, which is iteration 2: a
\* root position without a legal move is answered without a search, after
\* wait_for_stop_or_ponderhit() when pondering
IdLoopStart ==
    /\ seq # NoSeq /\ seq.pc = "id_loop"
    /\ seq' = IF seq.moveCount = 0
              THEN IF seq.PonderSearch
                   THEN [seq EXCEPT !.pc = "wait", !.after = "return"]
                   ELSE [seq EXCEPT !.pc = "returned"]
              ELSE [seq EXCEPT !.pc = "search", !.Iteration = seq.Iteration + 1]
    /\ UNCHANGED << pool, probe >>

\* init_node() of a node of thread 0, with poll() every NodesBetweenPolls nodes
PonderNode ==
    /\ seq # NoSeq /\ seq.pc = "search" /\ ~seq.AbortSearch
    /\ seq.nodes[0] < MaxNodeCount
    /\ \E cmd \in Commands, timeUp \in BOOLEAN :
          LET counted == [seq EXCEPT !.nodes[0] = seq.nodes[0] + 1]
          IN  seq' = IF seq.NodesSincePoll + 1 >= seq.NodesBetweenPolls
                     THEN [poll(counted, cmd, timeUp \/ (cmd = "ponderhit"
                                                          /\ seq.StopOnPonderhit))
                             EXCEPT !.NodesSincePoll = 0,
                                    !.received = seq.received \cup ({cmd} \ {"none"})]
                     ELSE [counted EXCEPT !.NodesSincePoll = seq.NodesSincePoll + 1]
    /\ UNCHANGED << pool, probe >>

\* root_search() has returned: the end of an iteration of id_loop(), where
\* stopSearch is the judgement of the time management
PonderIterationEnd ==
    /\ seq # NoSeq /\ seq.pc = "search"
    /\ \E stopSearch \in BOOLEAN :
          LET stops == seq.UseTimeManagement /\ stopSearch
              noted == [seq EXCEPT !.StopOnPonderhit =
                                      seq.StopOnPonderhit \/ (stops /\ seq.PonderSearch)]
          IN  seq' = IF seq.AbortSearch
                     THEN [seq EXCEPT !.pc = "loop end"]
                     ELSE IF stops /\ ~seq.PonderSearch
                          THEN [seq EXCEPT !.pc = "loop end"]
                          ELSE IF seq.MaxDepth # 0 /\ seq.Iteration >= seq.MaxDepth
                               THEN [noted EXCEPT !.pc = "loop end"]
                               ELSE IF seq.Iteration < PLY_MAX
                                    THEN [noted EXCEPT !.Iteration = seq.Iteration + 1]
                                    ELSE [noted EXCEPT !.pc = "loop end"]
    /\ UNCHANGED << pool, probe >>

\* after the loop id_loop() waits or goes on to print
LoopEnd ==
    /\ seq # NoSeq /\ seq.pc = "loop end"
    /\ seq' = IF MustWait(seq)
              THEN [seq EXCEPT !.pc = "wait", !.after = "print"]
              ELSE [seq EXCEPT !.pc = "print"]
    /\ UNCHANGED << pool, probe >>

\* wait_for_stop_or_ponderhit() reads a line
WaitForStopOrPonderhit ==
    /\ seq # NoSeq /\ seq.pc = "wait"
    /\ \E line \in InputLines :
          LET command == IF line = "eof" THEN "quit" ELSE line
              read == [seq EXCEPT !.received = seq.received \cup {command}]
          IN  seq' = IF command = "quit"
                     THEN [read EXCEPT !.Quit = TRUE,
                                       !.pc = IF seq.after = "print" THEN "print"
                                                                     ELSE "returned"]
                     ELSE IF command \in { "ponderhit", "stop" }
                          THEN [read EXCEPT !.pc = IF seq.after = "print" THEN "print"
                                                                          ELSE "returned"]
                          ELSE read
    /\ UNCHANGED << pool, probe >>

\* id_loop() prints the best move and returns
PrintBestMove ==
    /\ seq # NoSeq /\ seq.pc = "print"
    /\ seq' = [seq EXCEPT !.bestmove = TRUE, !.pc = "returned"]
    /\ UNCHANGED << pool, probe >>

NextPonder ==
    \/ IdLoopStart
    \/ Tick
    \/ PonderNode
    \/ PonderIterationEnd
    \/ LoopEnd
    \/ WaitForStopOrPonderhit
    \/ PrintBestMove

SpecPonder == InitPonder /\ [][NextPonder]_vars

(***************************************************************************)
(* Part 10 (specification SpecThreads): the main thread, the timer thread  *)
(* and the UI thread of src/thread.cpp                                     *)
(*                                                                         *)
(* seq holds the place of each thread (ui, main, timer), the flags do_sleep *)
(* and is_searching of the main thread, do_terminate of both threads and   *)
(* maxPly of the timer thread.  A step of a thread is a critical section   *)
(* of a sleepLock up to its release (a wait on a condition releases the    *)
(* lock) or one access outside the locks.  A thread that waits on a        *)
(* condition is at a place "... wait"; cond_signal() moves the thread that *)
(* waits on the condition to the place where it takes the lock again, and  *)
(* a waiting thread can also wake up without a signal.  The wait of        *)
(* INT_MAX milliseconds of a stopped timer does not expire.  The worker    *)
(* threads are left out.  History variables: calls, the number of searches *)
(* start_thinking() has launched; thinks, the number of calls of           *)
(* Search::think(); parked, whether the main thread has waited in          *)
(* main_loop(); early, whether a search was launched before; waitFor, the interval of the last timed wait; wake, what   *)
(* ended it; event, the last call of do_timer_event().                     *)
(***************************************************************************)
\* the intervals set_timer() is called with, in milliseconds
TimerIntervals == { 0, 1 }
NoEvent == [cause |-> "none", waited |-> 0, maxPly |-> 0]

\* ThreadsManager::init() has created the threads
InitThreads ==
    /\ PoolAtRest
    /\ probe = NoProbe
    /\ seq = [pc |-> "threads", ui |-> "idle", asyncMode |-> TRUE, exitAt |-> "none",
              main |-> "start", timer |-> "tl_test",
              do_sleep |-> TRUE, is_searching |-> FALSE,
              do_terminate |-> [th \in { "main", "timer" } |-> FALSE],
              maxPly |-> 0, calls |-> 0, thinks |-> 0, parked |-> FALSE,
              early |-> FALSE,
              waitFor |-> 0, wake |-> "none", event |-> NoEvent]

AtThreads == seq # NoSeq /\ seq.pc = "threads"

\* cond_signal(&sleepCond) of the main thread
SignalMain(s) == IF s.main = "ml_wait" THEN [s EXCEPT !.main = "ml_woken"] ELSE s

\* cond_signal(&Threads.sleepCond)
SignalUI(s) ==
    IF s.ui = "wes_wait" THEN [s EXCEPT !.ui = "wes"]
    ELSE IF s.ui = "st_wait" THEN [s EXCEPT !.ui = "st_woken"]
    ELSE s

\* cond_signal(&sleepCond) of the timer thread
SignalTimer(s) ==
    IF s.timer = "tl_wait" THEN [s EXCEPT !.timer = "tl_woken", !.wake = "signal"] ELSE s

\* the UI thread calls start_thinking(asyncMode)
StartThinkingCall ==
    /\ AtThreads /\ seq.ui = "idle" /\ seq.calls < MaxSearches
    /\ \E asyncMode \in BOOLEAN : seq' = [seq EXCEPT !.ui = "wes", !.asyncMode = asyncMode]
    /\ UNCHANGED << pool, probe >>

\* wait_end_of_search(): under main.sleepLock, wait while !main.do_sleep
wait_end_of_search ==
    /\ AtThreads /\ seq.ui = "wes"
    /\ seq' = IF ~seq.do_sleep THEN [seq EXCEPT !.ui = "wes_wait"]
                               ELSE [seq EXCEPT !.ui = "st"]
    /\ UNCHANGED << pool, probe >>

\* start_thinking() after wait_end_of_search(): under main.sleepLock, clear
\* do_sleep, wake the main thread and, unless asyncMode, wait
start_thinking ==
    /\ AtThreads /\ seq.ui = "st"
    /\ seq' = [SignalMain([seq EXCEPT !.do_sleep = FALSE]) EXCEPT
                  !.calls = seq.calls + 1,
                  !.early = seq.early \/ ~seq.parked,
                  !.ui = IF seq.asyncMode THEN "idle" ELSE "st_wait"]
    /\ UNCHANGED << pool, probe >>

\* start_thinking() returns from its wait
StartThinkingReturn ==
    /\ AtThreads /\ seq.ui = "st_woken"
    /\ seq' = [seq EXCEPT !.ui = "idle"]
    /\ UNCHANGED << pool, probe >>

\* do_sleep && !do_terminate
MainSleeps(s) == s.do_sleep /\ ~s.do_terminate["main"]

\* main_loop() under sleepLock from the test of its inner loop on: signal the
\* UI thread and wait, or leave with is_searching set
MainTest(s) ==
    IF MainSleeps(s)
    THEN [SignalUI(s) EXCEPT !.main = "ml_wait", !.parked = TRUE]
    ELSE [s EXCEPT !.is_searching = TRUE, !.main = "ml_after"]

\* main_loop(): the head of the outer loop, under sleepLock
MainLoopTop ==
    /\ AtThreads /\ seq.main \in { "start", "loop" }
    /\ seq' = MainTest([seq EXCEPT !.do_sleep = TRUE, !.is_searching = FALSE])
    /\ UNCHANGED << pool, probe >>

\* main_loop(): cond_wait() returns with sleepLock
MainWake ==
    /\ AtThreads /\ seq.main = "ml_woken"
    /\ seq' = MainTest(seq)
    /\ UNCHANGED << pool, probe >>

\* main_loop() after the release of sleepLock: return or Search::think()
MainAfter ==
    /\ AtThreads /\ seq.main = "ml_after"
    /\ seq' = IF seq.do_terminate["main"]
              THEN [seq EXCEPT !.main = "returned"]
              ELSE [seq EXCEPT !.main = "think", !.thinks = seq.thinks + 1]
    /\ UNCHANGED << pool, probe >>

\* Search::think() returns
ThinkReturns ==
    /\ AtThreads /\ seq.main = "think"
    /\ seq' = [seq EXCEPT !.main = "loop"]
    /\ UNCHANGED << pool, probe >>

\* a wait on a condition ends without a signal
SpuriousWakeup ==
    /\ AtThreads
    /\ \/ seq.main = "ml_wait" /\ seq' = [seq EXCEPT !.main = "ml_woken"]
       \/ seq.ui = "wes_wait" /\ seq' = [seq EXCEPT !.ui = "wes"]
       \/ seq.ui = "st_wait" /\ seq' = [seq EXCEPT !.ui = "st_woken"]
    /\ UNCHANGED << pool, probe >>

\* timer_loop(): the test of the loop
TimerTest ==
    /\ AtThreads /\ seq.timer = "tl_test"
    /\ seq' = IF seq.do_terminate["timer"] THEN [seq EXCEPT !.timer = "returned"]
                                           ELSE [seq EXCEPT !.timer = "tl_lock"]
    /\ UNCHANGED << pool, probe >>

\* timer_loop(): lock_grab() and timed_wait() for maxPly milliseconds, or for
\* INT_MAX milliseconds (waitFor = 0) when maxPly is 0
TimerWait ==
    /\ AtThreads /\ seq.timer = "tl_lock"
    /\ seq' = [seq EXCEPT !.timer = "tl_wait", !.waitFor = seq.maxPly, !.wake = "none"]
    /\ UNCHANGED << pool, probe >>

\* the interval of timed_wait() expires
TimerExpire ==
    /\ AtThreads /\ seq.timer = "tl_wait" /\ seq.waitFor # 0
    /\ seq' = [seq EXCEPT !.timer = "tl_woken", !.wake = "expiry"]
    /\ UNCHANGED << pool, probe >>

\* timer_loop(): timed_wait() returns with sleepLock, lock_release()
TimerUnlock ==
    /\ AtThreads /\ seq.timer = "tl_woken"
    /\ seq' = [seq EXCEPT !.timer = "tl_event"]
    /\ UNCHANGED << pool, probe >>

\* timer_loop(): do_timer_event()
TimerEvent ==
    /\ AtThreads /\ seq.timer = "tl_event"
    /\ seq' = [seq EXCEPT !.timer = "tl_test",
                          !.event = [cause |-> seq.wake, waited |-> seq.waitFor,
                                     maxPly |-> seq.maxPly]]
    /\ UNCHANGED << pool, probe >>

\* set_timer(msec), called by any thread before exit()
set_timer ==
    /\ AtThreads /\ seq.exitAt = "none"
    /\ \E msec \in TimerIntervals :
          /\ msec # seq.maxPly
          /\ seq' = SignalTimer([seq EXCEPT !.maxPly = msec])
    /\ UNCHANGED << pool, probe >>

\* the UI thread calls exit(): the loop starts with the main thread
ExitCall ==
    /\ AtThreads /\ seq.ui = "idle" /\ seq.exitAt = "none"
    /\ seq' = [seq EXCEPT !.ui = "exit_set", !.exitAt = "main"]
    /\ UNCHANGED << pool, probe >>

\* exit(): threads[i].do_terminate = true
ExitSetTerminate ==
    /\ AtThreads /\ seq.ui = "exit_set"
    /\ seq' = [seq EXCEPT !.do_terminate[seq.exitAt] = TRUE, !.ui = "exit_wake"]
    /\ UNCHANGED << pool, probe >>

\* wake_up(): cond_signal() under sleepLock
wake_up ==
    /\ AtThreads /\ seq.ui = "exit_wake"
    /\ seq' = [(IF seq.exitAt = "main" THEN SignalMain(seq) ELSE SignalTimer(seq))
                 EXCEPT !.ui = "exit_join"]
    /\ UNCHANGED << pool, probe >>

\* exit(): pthread_join() returns when the thread has returned
ExitJoin ==
    /\ AtThreads /\ seq.ui = "exit_join"
    /\ seq[seq.exitAt] = "returned"
    /\ seq' = IF seq.exitAt = "main"
              THEN [seq EXCEPT !.ui = "exit_set", !.exitAt = "timer"]
              ELSE [seq EXCEPT !.ui = "exited"]
    /\ UNCHANGED << pool, probe >>

NextThreads ==
    \/ StartThinkingCall
    \/ wait_end_of_search
    \/ start_thinking
    \/ StartThinkingReturn
    \/ MainLoopTop
    \/ MainWake
    \/ MainAfter
    \/ ThinkReturns
    \/ SpuriousWakeup
    \/ TimerTest
    \/ TimerWait
    \/ TimerExpire
    \/ TimerUnlock
    \/ TimerEvent
    \/ set_timer
    \/ ExitCall
    \/ ExitSetTerminate
    \/ wake_up
    \/ ExitJoin

SpecThreads == InitThreads /\ [][NextThreads]_vars

(***************************************************************************)
(* Part 11 (specifications SpecRecursion, SpecRecursionFair): the calls    *)
(* that search_pv(), search() and qsearch() of src/search.cpp make to one  *)
(* another.  seq.calls is the call stack of one thread; a frame keeps the  *)
(* arguments depth and ply of its activation.  Values are left out: every  *)
(* test on a value is a free choice.                                       *)
(***************************************************************************)
\* ThreatDepth = get_option_value_int("Threat Depth") * OnePly, 5 by default
ThreatDepth == 5 * OnePly
\* the depths of the searches that root_search() starts
RecursionDepths == { 0, MaxRecursionDepth }

RecFrame(fn, depth, ply, allowNullmove, excluded) ==
    [fn |-> fn, depth |-> depth, ply |-> ply, allowNullmove |-> allowNullmove,
     excluded |-> excluded, pc |-> "entry", moveCount |-> 0, newDepth |-> 0]

\* root_search() calls search_pv() and search() at ply 1; the RootMoveList
\* scores the root moves with qsearch() at ply 1
InitRecursion ==
    /\ PoolAtRest
    /\ probe = NoProbe
    /\ \E fn \in { "search_pv", "search", "qsearch" }, d \in RecursionDepths :
          /\ fn = "qsearch" => d = 0
          /\ seq = [pc |-> "recursion", calls |-> << RecFrame(fn, d, 1, TRUE, FALSE) >>]

AtRecursion == seq # NoSeq /\ seq.pc = "recursion" /\ seq.calls # << >>

\* the activation that runs
Callee == seq.calls[Len(seq.calls)]

AtRec(fns, pc) == AtRecursion /\ Callee.fn \in fns /\ Callee.pc = pc

\* the running activation goes on at pc
Goto(pc) ==
    /\ seq' = [seq EXCEPT !.calls[Len(seq.calls)].pc = pc]
    /\ UNCHANGED << pool, probe >>

\* the running activation calls g and goes on at pc when g returns
Call(pc, g) ==
    /\ seq' = [seq EXCEPT !.calls = Append([seq.calls EXCEPT ![Len(seq.calls)].pc = pc], g)]
    /\ UNCHANGED << pool, probe >>

\* the running activation returns
Unwind ==
    /\ seq' = [seq EXCEPT !.calls = SubSeq(seq.calls, 1, Len(seq.calls) - 1)]
    /\ UNCHANGED << pool, probe >>

\* if (depth < OnePly) return qsearch(pos, ss, alpha, beta, Depth(0), ply, threadID);
QsearchAtHorizon ==
    /\ AtRec({ "search_pv", "search" }, "entry")
    /\ Callee.depth < OnePly
    /\ Call("return", RecFrame("qsearch", 0, Callee.ply, TRUE, FALSE))

\* init_node(ss, ply, threadID): ss[ply].init(ply); ss[ply + 2].initKillers()
RecInitNode ==
    /\ AtRecursion
    /\ Callee.pc = "entry"
    /\ Callee.fn = "qsearch" \/ Callee.depth >= OnePly
    /\ Goto("node")

\* ply >= PLY_MAX + 1: the test that would stop at the end of the search stack
MaxPlyReached_Late(ply) == ply >= PlyMax + 1

\* ply >= PLY_MAX - 1
MaxPlyReached(ply) == ply >= PlyMax - 1

\* the entries of the search stack ss[PLY_MAX_PLUS_2] that the activation f has
\* read or written: ss[ply] and ss[ply + 2] in init_node(), ss[ply + 1] and
\* ss[ply - 1] in the body of search_pv() and search()
SsIndices(f) ==
    IF f.pc = "entry"
    THEN { }
    ELSE { f.ply, f.ply + 2 }
           \cup (IF f.pc # "node" /\ f.fn # "qsearch" THEN { f.ply - 1, f.ply + 1 } ELSE { })

\* the returns before the first call: the search is aborted, the position is a
\* draw or ply >= PLY_MAX - 1, mate distance pruning, a cutoff of the
\* transposition table or of the static evaluation
EarlyReturn ==
    /\ AtRecursion
    /\ Callee.pc = "node"
    /\ \E cut \in BOOLEAN :
          IF MaxPlyReached(Callee.ply) \/ cut
          THEN Unwind
          ELSE Goto(CASE Callee.fn = "search_pv" -> "iid"
                      [] Callee.fn = "search" -> "null"
                      [] OTHER -> "loop")

\* return qsearch(...), and the returns of a value that a callee gave
RecReturn ==
    /\ AtRecursion
    /\ Callee.pc = "return"
    /\ Unwind

\* internal iterative deepening: search_pv(..., depth-2*OnePly, ply, ...) if
\* depth >= 5*OnePly, search(..., Min(depth/2, depth-2*OnePly), ply, false, ...)
\* if depth >= 8*OnePly
IID ==
    /\ AtRec({ "search_pv", "search" }, "iid")
    /\ \E go \in BOOLEAN :
          LET f == Callee
          IN  IF go /\ f.fn = "search_pv" /\ f.depth >= 5 * OnePly
              THEN Call("loop", RecFrame("search_pv", f.depth - 2 * OnePly, f.ply, TRUE, FALSE))
              ELSE IF go /\ f.fn = "search" /\ f.depth >= 8 * OnePly
              THEN Call("loop", RecFrame("search", Min(f.depth \div 2, f.depth - 2 * OnePly),
                                         f.ply, FALSE, FALSE))
              ELSE Goto("loop")

\* the null move search: search(pos, ss, -(beta-1), depth-R*OnePly, ply+1, false, ...)
NullMove ==
    /\ AtRec({ "search" }, "null")
    /\ \E go \in BOOLEAN, more \in { 0, 1 } :
          LET f == Callee
              R == 3 + (IF f.depth >= 5 * OnePly THEN f.depth \div 8 ELSE 0) + more
          IN  IF go /\ f.allowNullmove /\ f.depth > OnePly
              THEN Call("verify", RecFrame("search", f.depth - R * OnePly, f.ply + 1, FALSE, FALSE))
              ELSE Goto("razor")

\* after the null move search: return beta, the zugzwang verification
\* search(pos, ss, beta, depth-5*OnePly, ply, false, ...), or the threat test
NullVerify ==
    /\ AtRec({ "search" }, "verify")
    /\ \E high \in BOOLEAN, threat \in BOOLEAN :
          LET f == Callee
          IN  IF high
              THEN IF f.depth < 6 * OnePly
                   THEN Unwind
                   ELSE Call("tested", RecFrame("search", f.depth - 5 * OnePly, f.ply, FALSE, FALSE))
              ELSE IF threat /\ f.depth < ThreatDepth
                   THEN Unwind
                   ELSE Goto("iid")

\* razoring: qsearch(pos, ss, rbeta-1, rbeta, Depth(0), ply, threadID)
Razor ==
    /\ AtRec({ "search" }, "razor")
    /\ \E go \in BOOLEAN :
          IF go /\ Callee.depth < RazorDepth
          THEN Call("tested", RecFrame("qsearch", 0, Callee.ply, TRUE, FALSE))
          ELSE Goto("iid")

\* if (v >= beta) return beta;  if (v < rbeta) return v;
AfterTest ==
    /\ AtRec({ "search" }, "tested")
    /\ \E ret \in BOOLEAN : IF ret THEN Unwind ELSE Goto("iid")

\* the head of the move loop of search_pv() and search()
PickMove ==
    /\ AtRec({ "search_pv", "search" }, "loop")
    /\ \E more \in BOOLEAN :
          IF more /\ Callee.moveCount < MaxChildren
          THEN /\ seq' = [seq EXCEPT !.calls[Len(seq.calls)].pc = "singular",
                                     !.calls[Len(seq.calls)].moveCount = @ + 1]
               /\ UNCHANGED << pool, probe >>
          ELSE Unwind

\* the singular extension search of the move of the transposition table:
\* search(pos, ss, ttValue - SingleReplyMargin, depth / 2, ply, false, threadID, move)
SingularSearch ==
    /\ AtRec({ "search_pv", "search" }, "singular")
    /\ \E go \in BOOLEAN :
          LET f == Callee
          IN  IF /\ go
                 /\ \/ f.fn = "search_pv" /\ f.depth >= 6 * OnePly
                    \/ f.fn = "search" /\ f.depth >= 8 * OnePly /\ ~f.excluded
              THEN Call("extend", RecFrame("search", f.depth \div 2, f.ply, FALSE, TRUE))
              ELSE Goto("extend")

\* newDepth = depth - OnePly + ext, with ext at most OnePly
DecideDepth ==
    /\ AtRec({ "search_pv", "search" }, "extend")
    /\ \E ext \in { 0, OnePly } :
          /\ seq' = [seq EXCEPT !.calls[Len(seq.calls)].pc = "move",
                                !.calls[Len(seq.calls)].newDepth = Callee.depth - OnePly + ext]
          /\ UNCHANGED << pool, probe >>

\* the first move of a PV node: search_pv(pos, ss, -beta, -alpha, newDepth, ply+1, ...);
\* a later move, or a move of search(), with a reduction:
\* search(pos, ss, -alpha, newDepth-ss[ply].reduction, ply+1, true, threadID)
ReducedSearch ==
    /\ AtRec({ "search_pv", "search" }, "move")
    /\ \E reduce \in BOOLEAN, doFullDepthSearch \in BOOLEAN :
          LET f == Callee
          IN  IF f.fn = "search_pv" /\ f.moveCount = 1
              THEN Call("loop", RecFrame("search_pv", f.newDepth, f.ply + 1, TRUE, FALSE))
              ELSE IF reduce /\ f.depth >= 3 * OnePly
              THEN Call(IF doFullDepthSearch THEN "full" ELSE "loop",
                        RecFrame("search", f.newDepth - OnePly, f.ply + 1, TRUE, FALSE))
              ELSE Goto("full")

\* search(pos, ss, -alpha, newDepth, ply+1, true, threadID)
FullSearch ==
    /\ AtRec({ "search_pv", "search" }, "full")
    /\ Call(IF Callee.fn = "search_pv" THEN "research" ELSE "loop",
            RecFrame("search", Callee.newDepth, Callee.ply + 1, TRUE, FALSE))

\* if (value > alpha && value < beta)
\*     value = -search_pv(pos, ss, -beta, -alpha, newDepth, ply+1, threadID);
PvResearch ==
    /\ AtRec({ "search_pv" }, "research")
    /\ \E go \in BOOLEAN :
          IF go
          THEN Call("loop", RecFrame("search_pv", Callee.newDepth, Callee.ply + 1, TRUE, FALSE))
          ELSE Goto("loop")

\* the move loop of qsearch():
\* value = -qsearch(pos, ss, -beta, -alpha, depth-OnePly, ply+1, threadID)
QsearchMove ==
    /\ AtRec({ "qsearch" }, "loop")
    /\ \E more \in BOOLEAN :
          IF more /\ Callee.moveCount < MaxChildren
          THEN /\ seq' = [seq EXCEPT !.calls =
                              Append([seq.calls EXCEPT ![Len(seq.calls)].moveCount = @ + 1],
                                     RecFrame("qsearch", Callee.depth - OnePly, Callee.ply + 1,
                                              TRUE, FALSE))]
               /\ UNCHANGED << pool, probe >>
          ELSE Unwind

NextRecursion ==
    \/ QsearchAtHorizon
    \/ RecInitNode
    \/ EarlyReturn
    \/ RecReturn
    \/ IID
    \/ NullMove
    \/ NullVerify
    \/ Razor
    \/ AfterTest
    \/ PickMove
    \/ SingularSearch
    \/ DecideDepth
    \/ ReducedSearch
    \/ FullSearch
    \/ PvResearch
    \/ QsearchMove

SpecRecursion == InitRecursion /\ [][NextRecursion]_vars

\* every activation that can take a step takes one
SpecRecursionFair == SpecRecursion /\ WF_vars(NextRecursion)

(***************************************************************************)
(* Properties of the split-point machinery                                 *)
(***************************************************************************)
\* the threads whose split() has just returned true: the caller is behind its
\* move loop and still names the split point it ran
SplitReturned(t) ==
    Running(t) /\ Top(t).kind = "node" /\ Top(t).pc = "end" /\ Top(t).sp # NULL

\* C1: when split() has returned, the split point it ran has cpus = 0 and no
\* bit of slaves[] set, whatever the interleaving of the participants was
C1_SplitReturnsQuiescent ==
    \A t \in ThreadIds :
        SplitReturned(t) =>
            /\ SP(Top(t).sp).cpus = 0
            /\ SP(Top(t).sp).slaves = {}

\* the part of C1 about cpus alone
C1_CpusZeroAtReturn ==
    \A t \in ThreadIds : SplitReturned(t) => SP(Top(t).sp).cpus = 0

\* master m books thread i in this step: under MPLock, i goes from idle to
\* working on the split point m has just set up
BookedBy(i, m) ==
    /\ i # m
    /\ MPLock = m /\ MPLock' = NoThread
    /\ Threads[i].idle /\ ~Threads'[i].idle
    /\ Threads'[i].splitPoint = Top(m).sp

\* the split point on top of the stack of thread i (i has active split points)
TopSplitPoint(i) == SplitPointStack[i][Threads[i].activeSplitPoints - 1]

\* C2: a thread that has active split points of its own is booked only by a
\* master that is in the slave set of the split point on top of its stack,
\* with two active threads as with more
C2_HelpfulMaster ==
    [][\A i, m \in ThreadIds :
          (BookedBy(i, m) /\ Threads[i].activeSplitPoints > 0)
              => m \in TopSplitPoint(i).slaves]_vars

\* a waiting master works for another master's split point, among three threads
C2_Witness ==
    \E i \in ThreadIds :
        /\ ActiveThreads > 2
        /\ Threads[i].activeSplitPoints > 0
        /\ Threads[i].splitPoint # NULL
        /\ Threads[i].splitPoint[1] # i
        /\ ~Threads[i].idle

\* the split points on the parent chain that starts at sp, at most n links deep
RECURSIVE ParentChain(_, _)
ParentChain(sp, n) ==
    IF sp = NULL \/ n = 0 THEN {}
    ELSE {sp} \cup ParentChain(SP(sp).parent, n - 1)

\* the split point thread t works at and its ancestors
Ancestors(t) == ParentChain(Threads[t].splitPoint, MaxThreads * ACTIVE_SPLIT_POINTS_MAX)

\* C4: thread_should_stop(t) is true whenever the stop flag of t is set or a
\* split point on the parent chain of t has its cutoff flag set, for every
\* number of active threads
C4_CancellationCascade ==
    \A t \in 0 .. (ActiveThreads - 1) :
        (Threads[t].stop \/ \E sp \in Ancestors(t) : SP(sp).finished)
            => thread_should_stop(t)

\* the cascade among more than two active threads
C4_CascadeAboveTwoThreads ==
    ActiveThreads > 2 => C4_CancellationCascade

\* a thread works below a finished split point that is not its own, and
\* thread_should_stop does not tell it
C4_WorkingBelowCutoff ==
    \E t \in ThreadIds :
        /\ Running(t) /\ ~Threads[t].idle
        /\ Threads[t].splitPoint # NULL
        /\ ~thread_should_stop(t)
        /\ \E sp \in Ancestors(t) \ {Threads[t].splitPoint} : SP(sp).finished

\* all SplitPoint objects
SplitPoints == ThreadIds \X SlotIds

\* worker t records this step a new best value at split point s
Records(t, s) ==
    /\ Running(t) /\ Top(t).kind = "sp" /\ Top(t).pc = "rec" /\ Top(t).sp = s
    /\ stack'[t] # stack[t]
    /\ SplitPointStack'[s[1]][s[2]].bestValue # SP(s).bestValue

\* the threads a cutoff at s found by t has to stop: the master and the slaves
Participants(s, t) ==
    { i \in 0 .. (ActiveThreads - 1) : i # t /\ (i = SP(s).master \/ i \in SP(s).slaves) }

\* C5: the step in which a worker records a value >= beta at a split point
\* sets the cutoff flag of the split point and the stop flag of every other
\* participant; and once the cutoff flag is set no further move is taken
\* from the MovePicker of that split point
C5_CutoffStopsSiblings ==
    [][\A s \in SplitPoints :
          /\ \A t \in ThreadIds :
                (Records(t, s) /\ SplitPointStack'[s[1]][s[2]].bestValue >= SP(s).beta)
                    => /\ SplitPointStack'[s[1]][s[2]].finished
                       /\ \A i \in Participants(s, t) : Threads'[i].stop
          /\ (SP(s).finished /\ SplitPointStack'[s[1]][s[2]].finished)
                => /\ SplitPointStack'[s[1]][s[2]].mp = SP(s).mp
                   /\ handed'[s[1]][s[2]] = handed[s[1]][s[2]]]_vars

\* a cutoff was recorded while the MovePicker still had a move and a sibling,
\* now stopped, was still at work
C5_Witness ==
    \E s \in SplitPoints :
        /\ SP(s).finished
        /\ SP(s).bestValue >= SP(s).beta
        /\ get_next_move(SP(s).mp) # MOVE_NONE
        /\ \E i \in SP(s).slaves : Threads[i].stop /\ Running(i)
                                   /\ Top(i).kind = "sp" /\ Top(i).sp = s

\* C6: at every split point the moves handed out are pairwise distinct, they
\* are the moves the MovePicker has produced with none left out, and the
\* move counts handed out with them are pairwise distinct
C6_MovesHandedOnce ==
    \A s \in SplitPoints :
        LET h == handed[s[1]][s[2]]
            n == Len(h)
        IN  /\ \A j, k \in 1 .. n :
                  j # k => /\ h[j].move # h[k].move
                           /\ h[j].moveCount # h[k].moveCount
            /\ { h[k].move : k \in 1 .. n } = (SP(s).mp - n + 1) .. SP(s).mp
            /\ { h[k].moveCount : k \in 1 .. n } = (SP(s).moves - n + 1) .. SP(s).moves

\* two workers have each been handed a move of the same split point
C6_Witness ==
    \E s \in SplitPoints :
        LET h == handed[s[1]][s[2]] IN
        /\ Len(h) >= 2
        /\ h[1].thread # h[2].thread

\* thread m, not i, changes the split-point pointer of thread i in this step
Reassigns(m, i) ==
    /\ m # i
    /\ stack'[m] # stack[m]
    /\ Threads'[i].splitPoint # Threads[i].splitPoint

\* the participants of every split point are within MaxThreadsPerSplitPoint
WithinThreadCap ==
    \A s \in SplitPoints :
        /\ SP(s).cpus <= MaxThreadsPerSplitPoint
        /\ Cardinality(SP(s).slaves \cup {SP(s).master}) <= MaxThreadsPerSplitPoint

\* masters that have booked their slaves and not yet woken them hold disjoint
\* sets of slaves
BookingsDisjoint ==
    \A m1, m2 \in ThreadIds :
        (m1 # m2 /\ AtNode(m1, "split_wake") /\ AtNode(m2, "split_wake"))
            => SP(Top(m1).sp).slaves \cap SP(Top(m2).sp).slaves = {}

\* a master back from idle_loop() inside split() is still idle (no master has
\* booked it, which would have cleared idle) and has no work waiting
MasterNotBooked ==
    \A t \in ThreadIds :
        AtNode(t, "split_join")
            => /\ Threads[t].idle
               /\ ~Threads[t].workIsWaiting

\* C7: a thread's split-point pointer is set by another thread only while that
\* thread holds MPLock, only when the thread is idle and available to it, and
\* never while the thread executes or has work waiting; split points stay
\* within MaxThreadsPerSplitPoint participants; two masters never hold the
\* same slave; a master that has left its idle loop in split() is not booked
C7_AllocationUnderLock ==
    [][/\ \A m, i \in ThreadIds :
             Reassigns(m, i)
                 => /\ MPLock = m
                    /\ Threads[i].idle /\ thread_is_available(i, m)
                    /\ Top(i).kind = "idle" /\ ~Threads[i].workIsWaiting
                    /\ Threads'[i].splitPoint = Top(m).sp
       /\ WithinThreadCap'
       /\ BookingsDisjoint'
       /\ MasterNotBooked']_vars

\* a master holds MPLock for its allocation while a second master waits for
\* the lock and the same idle thread is available to both
C7_Witness ==
    \E m1, m2, i \in ThreadIds :
        /\ m1 # m2
        /\ MPLock = m1 /\ AtNode(m1, "split_alloc")
        /\ AtNode(m2, "split")
        /\ thread_is_available(i, m1) /\ thread_is_available(i, m2)

\* thread t creates a split point in this step
Creates(t) == Threads'[t].activeSplitPoints = Threads[t].activeSplitPoints + 1

\* C8: a split point is created only with more than one active thread, at a
\* depth of at least MinimumSplitDepth, by a master below the maximum of
\* active split points, when an idle thread is available to it, at a node of
\* which at least one move has been searched; and once its slaves are
\* allocated it has cpus > 1
C8_SplitConditions ==
    [][\A t \in ThreadIds :
          /\ Creates(t)
                => /\ ActiveThreads > 1
                   /\ Top(t).kind = "node"
                   /\ Top(t).depth >= MinimumSplitDepth
                   /\ Threads[t].activeSplitPoints < ACTIVE_SPLIT_POINTS_MAX
                   /\ idle_thread_exists(t)
                   /\ Top(t).searched >= 1
          /\ (AtNode(t, "split_wake") => SP(Top(t).sp).cpus > 1)']_vars

\* a master at its last free SplitPoint object has created a split point and
\* got a slave for it
C8_Witness ==
    \E t \in ThreadIds :
        /\ AtNode(t, "split_wake")
        /\ Threads[t].activeSplitPoints = ACTIVE_SPLIT_POINTS_MAX
        /\ SP(Top(t).sp).cpus > 1

\* a master asks for a split point with all its SplitPoint objects in use
C8_RefusedAtMaximum ==
    \E t \in ThreadIds :
        AtNode(t, "split") /\ Threads[t].activeSplitPoints >= ACTIVE_SPLIT_POINTS_MAX

\* C9: activeSplitPoints stays within 0 .. ACTIVE_SPLIT_POINTS_MAX; a master in
\* split() uses the SplitPoint object below its activeSplitPoints, whose
\* parent is the split point the master worked at when it called split();
\* and when split() has returned, activeSplitPoints and the split-point
\* pointer of the master are what they were at the call
C9_StackDiscipline ==
    \A t \in ThreadIds :
        /\ Threads[t].activeSplitPoints \in 0 .. ACTIVE_SPLIT_POINTS_MAX
        /\ (Running(t) /\ Top(t).kind = "node"
               /\ Top(t).pc \in {"split_alloc", "split_wake", "split_join"})
              => /\ Top(t).sp = << t, Threads[t].activeSplitPoints - 1 >>
                 /\ SP(Top(t).sp).parent = Top(t).before
        /\ SplitReturned(t)
              => /\ Threads[t].activeSplitPoints = Top(t).sp[2]
                 /\ Threads[t].splitPoint = Top(t).before

\* a nested split() has returned to a master that still has a split point of
\* its own
C9_Witness ==
    \E t \in ThreadIds :
        /\ SplitReturned(t)
        /\ Threads[t].activeSplitPoints > 0
        /\ Threads[t].splitPoint # NULL

\* some activation of thread t is inside split(), behind the creation of the
\* split point
InSplit(t) ==
    \E k \in 1 .. Len(stack[t]) :
        /\ stack[t][k].kind = "node"
        /\ stack[t][k].pc \in {"split_alloc", "split_wake", "split_join"}

\* C3: under fair scheduling every call of split() returns: a thread that is
\* inside split() is eventually outside of every split()
C3_SplitReturns ==
    \A t \in ThreadIds : InSplit(t) ~> ~InSplit(t)

\* a split() has returned to a master that had meanwhile taken a move of a
\* split point created below its own one, as a helpful master
C3_Witness ==
    \E t \in ThreadIds, s \in SplitPoints :
        /\ SplitReturned(t)
        /\ s[1] # t
        /\ SP(s).parent = Top(t).sp
        /\ \E k \in 1 .. Len(handed[s[1]][s[2]]) : handed[s[1]][s[2]][k].thread = t

(***************************************************************************)
(* Properties of the transposition-table probe                             *)
(***************************************************************************)
\* the value types that are lower bounds, and those that are upper bounds
LowerBounds == { VALUE_TYPE_LOWER, VALUE_TYPE_EXACT, VALUE_TYPE_EV_LO }
UpperBounds == { VALUE_TYPE_UPPER, VALUE_TYPE_EXACT, VALUE_TYPE_EV_UP }

\* the ply-adjusted value of the entry probed
ProbedValue == value_from_tt(probe.tte.value, probe.ply)

\* the entry is deep enough, or its value is a mate score on the side of beta
\* that the bound test asks for
DeepEnoughOrMate ==
    \/ probe.tte.depth >= probe.depth
    \/ ProbedValue >= value_mate_in(PLY_MAX) /\ ProbedValue >= probe.beta
    \/ ProbedValue < value_mated_in(PLY_MAX) /\ ProbedValue < probe.beta

\* the bound type of the entry agrees with beta
BoundAgrees ==
    \/ probe.tte.type \in LowerBounds /\ ProbedValue >= probe.beta
    \/ probe.tte.type \in UpperBounds /\ ProbedValue < probe.beta

\* C10: ok_to_use_TT is true exactly when the entry is deep enough or a mate
\* score on the right side of beta, and its bound type agrees with beta; and
\* search() returns from the probe, with the ply-adjusted stored value,
\* exactly when an entry was found for which that holds
C10_TTCutoff ==
    /\ probe.tte # NoEntry
          => (ok_to_use_TT(probe.tte, probe.depth, probe.beta, probe.ply)
                <=> (DeepEnoughOrMate /\ BoundAgrees))
    /\ probe.pc = "returned"
          => /\ probe.tte # NoEntry
             /\ DeepEnoughOrMate /\ BoundAgrees
             /\ probe.ret = ProbedValue
    /\ probe.pc = "searching"
          => (probe.tte = NoEntry \/ ~(DeepEnoughOrMate /\ BoundAgrees))

\* search() has returned the value of an entry that is too shallow, a mate
\* score above beta
C10_Witness ==
    /\ probe.pc = "returned"
    /\ probe.tte.depth < probe.depth
    /\ probe.ret >= value_mate_in(PLY_MAX)
    /\ probe.ret # probe.tte.value

(***************************************************************************)
(* Properties of one activation of search_pv(), search(), qsearch()        *)
(***************************************************************************)
\* the call has returned
Returned == seq.pc = "returned"
\* the call was a call of search_pv(): the node is a PV node
PvCall == seq.entry = "search_pv"

\* the value returned is the value of the TT entry: the cutoff of the lookup,
\* or a static evaluation read from the entry that comes back unchanged
ReturnsTTValue ==
    \/ seq.exit = "tt"
    \/ seq.exit \in {"standpat", "best"} /\ seq.staticFromTT /\ seq.ret = seq.staticValue

\* C11: a call of search_pv(), with the quiescence search it enters, never
\* returns a value taken from a TT entry, whatever window it is called with
C11_PvNeverReturnsTT ==
    (Returned /\ PvCall) => ~ReturnsTTValue

\* search_pv() itself, and the quiescence search of a PV node whose window is
\* wider than one, never return from the TT lookup
C11_NoCutoffInWideWindows ==
    (Returned /\ PvCall /\ (seq.fn = "search_pv" \/ seq.b0 - seq.a0 # 1))
        => seq.exit # "tt"

\* the window of search_pv() after its mate distance pruning
PrunedAlpha == Max(value_mated_in(seq.ply), seq.a0)
PrunedBeta == Min(value_mate_in(seq.ply + 1), seq.b0)

\* search_pv() or search() has stored its result
StoredResult == Returned /\ seq.fn # "qsearch" /\ seq.stored # NoStore

\* the statement of C12 as written: the bound type stored tells where bestValue
\* lies in the window (alpha, beta) of the call, and so does the value returned
C12_BoundOfCallWindow ==
    StoredResult =>
        /\ seq.stored.type = VALUE_TYPE_UPPER <=> seq.bestValue <= seq.a0
        /\ seq.stored.type = VALUE_TYPE_LOWER <=> seq.bestValue >= seq.b0
        /\ seq.stored.type = VALUE_TYPE_EXACT
              <=> (seq.a0 < seq.bestValue /\ seq.bestValue < seq.b0)
        /\ seq.ret = seq.bestValue

\* C12: the bound type stored by search_pv() and search() is UPPER iff
\* bestValue <= alpha of the call, LOWER iff bestValue >= beta, where beta of
\* search_pv() is the beta of the call lowered to value_mate_in(ply+1) by the
\* mate distance pruning, and EXACT iff bestValue lies strictly between them;
\* the value returned is bestValue; LOWER and EXACT entries carry the PV move
\* set by the move that raised the value, UPPER entries carry MOVE_NONE
C12_BoundOfPrunedWindow ==
    StoredResult =>
        LET beta == IF seq.fn = "search_pv" THEN PrunedBeta ELSE seq.b0 IN
        /\ seq.stored.type = VALUE_TYPE_UPPER <=> seq.bestValue <= seq.a0
        /\ seq.stored.type = VALUE_TYPE_LOWER <=> seq.bestValue >= beta
        /\ seq.stored.type = VALUE_TYPE_EXACT
              <=> (seq.a0 < seq.bestValue /\ seq.bestValue < beta)
        /\ seq.ret = seq.bestValue
        /\ seq.stored.type = VALUE_TYPE_UPPER => seq.stored.move = MOVE_NONE
        /\ seq.stored.type # VALUE_TYPE_UPPER
              => seq.stored.move # MOVE_NONE /\ seq.stored.move = seq.pvMove

\* search_pv() has stored a LOWER bound for a mate score that lies inside the
\* window it was called with
C12_Witness ==
    /\ StoredResult
    /\ seq.fn = "search_pv"
    /\ seq.stored.type = VALUE_TYPE_LOWER
    /\ seq.bestValue = value_mate_in(seq.ply + 1)
    /\ seq.a0 < seq.bestValue /\ seq.bestValue < seq.b0

\* the search was not stopped and did not end in an early exit: a draw, the
\* maximum ply, the mate distance pruning or a TT cutoff
Undisturbed == seq.stopAt = "never" /\ seq.exit \notin {"draw", "mdp", "tt"}

\* the score of a position without legal moves
NoMoveScore == IF seq.isCheck THEN value_mated_in(seq.ply) ELSE VALUE_DRAW

\* the statement of C13 as written, read for an undisturbed search: a position
\* without legal moves gets its no-move score, and the no-move exit is taken
\* only in positions without legal moves
C13_NoMoveScores ==
    (Returned /\ Undisturbed) =>
        /\ seq.legal = 0 => seq.ret = NoMoveScore
        /\ seq.exit = "nomoves" => seq.legal = 0

\* C13: search_pv(), search() and qsearch() return value_mated_in(ply) for a
\* side to move that is in check and has no legal move; search_pv() and
\* search() return VALUE_DRAW for a stalemated side when they reach their move
\* loop (search() can return before it, by static null move pruning or
\* razoring); qsearch() returns the static evaluation for a stalemated side;
\* the no-move exit is taken with legal moves on the board only when the thread
\* is told to stop at the first test of the loop condition
C13_NoMoveExit ==
    /\ (Returned /\ seq.exit = "nomoves")
          => /\ seq.ret = NoMoveScore
             /\ seq.legal = 0 \/ (seq.stopAt = "loop" /\ seq.fn # "qsearch")
    /\ (Returned /\ Undisturbed /\ seq.legal = 0)
          => /\ seq.isCheck => seq.exit = "nomoves"
             /\ (~seq.isCheck /\ seq.fn # "qsearch"
                   /\ seq.exit \notin {"staticnull", "razor"})
                   => (seq.exit = "nomoves" /\ seq.ret = VALUE_DRAW)
             /\ (~seq.isCheck /\ seq.fn = "qsearch") => seq.ret = seq.staticValue

\* search() has returned the mated score of a checkmated side
C13_Witness ==
    /\ Returned /\ Undisturbed
    /\ seq.fn = "search" /\ seq.legal = 0 /\ seq.isCheck
    /\ seq.exit = "nomoves" /\ seq.ret = value_mated_in(seq.ply)

\* a stalemated side gets a score that is not VALUE_DRAW from qsearch()
C13_StalemateInQsearch ==
    /\ Returned /\ Undisturbed
    /\ seq.fn = "qsearch" /\ seq.legal = 0 /\ ~seq.isCheck
    /\ seq.ret # VALUE_DRAW

\* the statement of C14 as written: a position that is a draw returns
\* VALUE_DRAW, and a node at the maximum ply returns the static evaluation
C14_EarlyExits ==
    Returned =>
        /\ seq.isDraw => seq.ret = VALUE_DRAW
        /\ (~seq.isDraw /\ seq.ply >= PLY_MAX - 1 /\ seq.stopAt # "entry")
              => seq.ret = seq.eval

\* C14: search_pv(), search() and qsearch() return VALUE_DRAW for a position
\* that is a draw and for a node at the maximum ply (ply >= PLY_MAX - 1), both
\* through the same early exit, before the position is evaluated
C14_DrawAtMaximumPly ==
    Returned =>
        /\ seq.isDraw => seq.ret = VALUE_DRAW
        /\ seq.ply >= PLY_MAX - 1
              => /\ seq.ret = VALUE_DRAW
                 /\ seq.exit \in {"abort", "draw"}

\* a node at the maximum ply, not a draw and not stopped, has returned
\* VALUE_DRAW though its static evaluation is another value
C14_Witness ==
    /\ Returned /\ seq.exit = "draw"
    /\ ~seq.isDraw /\ seq.ply >= PLY_MAX - 1
    /\ seq.eval # VALUE_DRAW /\ seq.ret = VALUE_DRAW

(***************************************************************************)
(* Properties of id_loop() and root_search()                               *)
(***************************************************************************)
\* root_search() is running
InRootSearch == seq.pc \in {"move", "search", "searched"}

\* this step widens the window: a fail high or a fail low re-search
Widens == InRootSearch /\ seq'.researchCount # seq.researchCount

\* C15: in root_search() every re-search widens one bound of the window, beta
\* after a fail high and alpha after a fail low, by a step that is twice the
\* step of the previous widening (the first step is twice AspirationDelta), up
\* to +/-VALUE_INFINITE; within an iteration beta never decreases and the
\* alpha the iteration started from never increases; Iteration does not change
\* while root_search() runs; and every call of root_search() returns
C15_AspirationResearch ==
    /\ [][ /\ InRootSearch => seq'.Iteration = seq.Iteration
           /\ seq'.Iteration = seq.Iteration
                 => /\ seq'.beta >= seq.beta
                    /\ seq'.oldAlpha <= seq.oldAlpha
                    /\ seq'.researchCount >= seq.researchCount
           /\ Widens
                 => /\ seq'.researchCount = seq.researchCount + 1
                    /\ seq'.lastStep = 2 * (IF seq.lastStep = 0 THEN seq.AspirationDelta
                                                                ELSE seq.lastStep)
                    /\ \/ /\ seq.value >= seq.beta /\ seq.pc = "searched"
                          /\ seq'.beta = Min(seq.beta + seq'.lastStep, ValueInfinite)
                          /\ seq'.oldAlpha = seq.oldAlpha
                       \/ /\ seq.alpha <= seq.oldAlpha /\ seq.pc = "move"
                          /\ seq'.oldAlpha = Max(seq.alpha - seq'.lastStep, -ValueInfinite)
                          /\ seq'.alpha = seq'.oldAlpha
                          /\ seq'.beta = seq.beta
           /\ (seq'.beta # seq.beta \/ seq'.oldAlpha # seq.oldAlpha)
                 => (Widens \/ seq.pc = "iterate") ]_vars
    /\ InRootSearch ~> (seq.pc = "iterated")

\* the third re-search in one call of root_search(): beta was widened twice
\* without reaching VALUE_INFINITE, the second time by twice the first step
C15_Witness ==
    /\ seq.pc = "search"
    /\ seq.researchCount = 2
    /\ seq.lastStep = 4 * seq.AspirationDelta
    /\ seq.AspirationDelta > 0
    /\ seq.beta < ValueInfinite
    /\ seq.beta = seq.ValueByIteration[seq.Iteration - 1] + 7 * seq.AspirationDelta

\* id_loop() has printed its best move
Done == seq.pc = "done"

\* the search of a root move has just been stopped by AbortSearch
AbortedSearch == seq.pc = "searched" /\ seq.AbortSearch

C18_DepthLimit ==
    /\ seq.Iteration <= PLY_MAX
    /\ (seq.MaxDepth >= 1 /\ seq.MaxDepth <= PLY_MAX)
          => /\ seq.Iteration <= seq.MaxDepth
             /\ (Done /\ ~seq.AbortSearch) => seq.Iteration = seq.MaxDepth

\* what id_loop() does: Iteration never exceeds PLY_MAX, and with
\* MaxDepth = d >= 1 the last iteration is iteration Max(d, 2)
C18_DepthLimitFromTwo ==
    /\ seq.Iteration <= PLY_MAX
    /\ (seq.MaxDepth >= 1 /\ seq.MaxDepth <= PLY_MAX)
          => /\ seq.Iteration <= Max(seq.MaxDepth, 2)
             /\ (Done /\ ~seq.AbortSearch) => seq.Iteration = Max(seq.MaxDepth, 2)

\* the root move lists a and b hold the same root moves
IsPermutation(a, b) ==
    /\ Len(a) = Len(b)
    /\ \E f \in [1 .. Len(a) -> 1 .. Len(a)] :
          /\ \A j, k \in 1 .. Len(a) : j # k => f[j] # f[k]
          /\ \A j \in 1 .. Len(a) : a[j] = b[f[j]]

\* this step calls rml.sort()
Sorts ==
    \/ seq.pc = "iterate" /\ seq.Iteration < PLY_MAX
    \/ seq.pc = "finish"

\* this step gives up a root move that failed low outside the MultiPV slots
FailsLow ==
    /\ seq.pc = "searched" /\ ~seq.AbortSearch
    /\ seq.value <= seq.alpha /\ seq.i >= seq.MultiPV

\* the statement of C19 as written: sort() permutes the list into the order of
\* score descending and, among equal scores, beta counter ascending
C19_TiesAscending ==
    [][ Sorts =>
          /\ IsPermutation(seq'.rml, seq.rml)
          /\ \A j, k \in 1 .. Len(seq'.rml) :
                j < k => \/ seq'.rml[j].score > seq'.rml[k].score
                         \/ /\ seq'.rml[j].score = seq'.rml[k].score
                            /\ seq'.rml[j].theirBeta <= seq'.rml[k].theirBeta ]_vars

\* C19: RootMoveList::sort() permutes the root moves into the order of score
\* descending and, among moves of equal score, beta counter (theirBeta)
\* descending; a root move that fails low outside the MultiPV slots gets the
\* score -VALUE_INFINITE, below every score a search returns
C19_TiesDescending ==
    [][ /\ Sorts =>
             /\ IsPermutation(seq'.rml, seq.rml)
             /\ \A j, k \in 1 .. Len(seq'.rml) :
                   j < k => \/ seq'.rml[j].score > seq'.rml[k].score
                            \/ /\ seq'.rml[j].score = seq'.rml[k].score
                               /\ seq'.rml[j].theirBeta >= seq'.rml[k].theirBeta
        /\ FailsLow =>
             /\ seq'.rml[seq.i + 1].score = -ValueInfinite
             /\ \A v \in RootValues : v > -ValueInfinite ]_vars

\* sort() has put a root move with the higher beta counter before a root move
\* of the same score
C19_Witness ==
    /\ seq.pc \in {"move", "done"} /\ seq.i = 0 /\ seq.researchCount = 0
    /\ Len(seq.rml) >= 2
    /\ seq.rml[1].score = seq.rml[2].score
    /\ seq.rml[1].theirBeta > seq.rml[2].theirBeta

(***************************************************************************)
(* Properties of the limits of think() and poll()                          *)
(***************************************************************************)
\* the statement of C17 as written: a search with MaxNodes = 0 goes no further
\* than the iteration it starts with, and a search with ExactMaxTime = 1 is
\* aborted as soon as poll() has been called
C17_ImmediateStop ==
    seq.pc = "search" =>
       /\ seq.MaxNodes = 0 => seq.Iteration = 1
       /\ (seq.ExactMaxTime = 1 /\ seq.polls >= 1) => seq.AbortSearch

\* C17: MaxNodes = 0 is no node limit: an infinite search without movetime
\* started with it is aborted by nothing but a "stop" or "quit" read by
\* poll(); a search started with movetime = 1 is aborted by the first call of
\* poll() at which the search time has reached 1 ms and the search is not
\* pondering
C17_NodeAndTimeLimits ==
    seq.pc = "search" =>
       /\ (seq.MaxNodes = 0 /\ seq.ExactMaxTime = 0 /\ seq.InfiniteSearch
              /\ ~seq.stopSeen) => ~seq.AbortSearch
       /\ (seq.ExactMaxTime = 1 /\ seq.lastPollTime >= 1 /\ ~seq.PonderSearch)
             => seq.AbortSearch

\* a search with movetime = 1 and MaxNodes = 0 has gone on to iteration 3 and
\* beyond the node count 0, and the first call of poll() has aborted it
\* without reading a command
C17_Witness ==
    /\ seq.pc = "search"
    /\ seq.MaxNodes = 0 /\ seq.ExactMaxTime = 1
    /\ seq.Iteration >= 3 /\ nodes_searched(seq) >= 1
    /\ seq.polls = 1 /\ seq.lastPollTime >= 1
    /\ seq.AbortSearch /\ ~seq.stopSeen

\* an infinite search with MaxNodes = 0 is in iteration 3 after poll() has been
\* called with a positive node count, and goes on
C17_NoLimitGoesOn ==
    /\ seq.pc = "search"
    /\ seq.MaxNodes = 0 /\ seq.ExactMaxTime = 0 /\ seq.InfiniteSearch
    /\ seq.Iteration >= 3 /\ seq.polls >= 2 /\ ~seq.AbortSearch

(***************************************************************************)
(* Properties of the History tables                                        *)
(***************************************************************************)
\* the move-ordering score the last call found for its entry
ScoreBefore == seq.last.before[seq.last.p][seq.last.to]

\* the move-ordering score of the entry of the last call
ScoreAfter == move_ordering_score(seq.H, seq.last.p, seq.last.to)

\* the statement of C20 as written: success() raises the score of its entry by
\* depth squared and failure() lowers the score of its entry
C20_FailureLowers ==
    /\ seq.last.op = "success" => ScoreAfter = ScoreBefore + seq.last.d * seq.last.d
    /\ seq.last.op = "failure" => ScoreAfter < ScoreBefore

\* C20: History::success(piece, to, depth) raises the history score of
\* (piece, to) by depth squared and then, if that score has reached
\* HistoryMax, divides every history score by 4; History::failure(piece, to)
\* leaves every history score, and so every move-ordering score, as it is
C20_HistoryFeedback ==
    /\ seq.last.op = "success" =>
          LET raised == ScoreBefore + seq.last.d * seq.last.d
              bumped == [seq.last.before EXCEPT ![seq.last.p][seq.last.to] = raised]
          IN  \A p \in HistoryPieces, to \in HistorySquares :
                 move_ordering_score(seq.H, p, to) =
                    IF raised >= HistoryMax THEN bumped[p][to] \div 4
                                            ELSE bumped[p][to]
    /\ seq.last.op = "failure" =>
          \A p \in HistoryPieces, to \in HistorySquares :
             move_ordering_score(seq.H, p, to) = seq.last.before[p][to]

\* failure() has been called for an entry with a positive history score, which
\* it left as it was, and the entry has more failures than successes
C20_Witness ==
    /\ seq.last.op = "failure"
    /\ seq.H.failureCount[seq.last.p][seq.last.to] >= 1
    /\ ScoreBefore > 0
    /\ ScoreAfter = ScoreBefore
    /\ ok_to_prune(seq.H, seq.last.p, seq.last.to, 1)

\* success() has divided the history scores by 4: the score of its entry is
\* lower than before the call, and so is the score of another entry
C20_ScoresDivided ==
    /\ seq.last.op = "success"
    /\ ScoreAfter < ScoreBefore
    /\ \E p \in HistoryPieces, to \in HistorySquares :
          /\ << p, to >> # << seq.last.p, seq.last.to >>
          /\ seq.H.history[p][to] < seq.last.before[p][to]

\* C21: after any sequence of clear(), success() and failure() every entry of
\* the history table is below HistoryMax and not negative: a call of success()
\* that raises its entry to HistoryMax or above divides the table by 4
C21_HistoryBounded ==
    \A p \in HistoryPieces, to \in HistorySquares :
       /\ seq.H.history[p][to] >= 0
       /\ seq.H.history[p][to] < HistoryMax

\* success() has raised its entry to HistoryMax or above and the division has
\* brought it back below HistoryMax, together with another positive entry
C21_Witness ==
    /\ seq.last.op = "success"
    /\ ScoreBefore + seq.last.d * seq.last.d >= HistoryMax
    /\ ScoreAfter < HistoryMax
    /\ \E p \in HistoryPieces, to \in HistorySquares :
          /\ << p, to >> # << seq.last.p, seq.last.to >>
          /\ seq.last.before[p][to] >= 4

(***************************************************************************)
(* Properties of the command loop                                          *)
(***************************************************************************)
\* the last command is none that execute_uci_command() knows
UnknownCommand ==
    /\ seq.last.cmd # << >>
    /\ Head(seq.last.cmd) \notin { "quit", "ucinewgame", "isready", "position",
                                   "setoption" }

\* the last command is a setoption that names no option
UnknownOption ==
    /\ seq.last.cmd # << >> /\ Head(seq.last.cmd) = "setoption"
    /\ Join(Until(Rest(seq.last.cmd, 2), "value")) \notin DOMAIN seq.last.options

\* the move list of the last command, a position command
MoveListOf(cmd) ==
    IF cmd[2] = "startpos" THEN Rest(cmd, 3)
    ELSE Rest(cmd, 3 + Len(Until(Rest(cmd, 2), "moves")))

\* the position the last command, a position command, names before its moves
BaseOf(cmd) ==
    IF cmd[2] = "startpos" THEN from_fen(StartPositionFEN)
    ELSE from_fen(Join(Until(Rest(cmd, 2), "moves")))

\* the tokens of a move list up to its first token that is no legal move
RECURSIVE LegalPrefix(_, _)
LegalPrefix(pos, tokens) ==
    IF tokens = << >> \/ move_from_uci(pos, Head(tokens)) = UciMoveNone
    THEN << >>
    ELSE << Head(tokens) >>
            \o LegalPrefix(do_move(pos, move_from_uci(pos, Head(tokens))), Tail(tokens))

\* the last command is a position command whose move list holds a token that
\* is no legal move
IllegalMoveInList ==
    /\ Len(seq.last.cmd) >= 2 /\ Head(seq.last.cmd) = "position"
    /\ seq.last.cmd[2] \in { "startpos", "fen" }
    /\ LegalPrefix(BaseOf(seq.last.cmd), MoveListOf(seq.last.cmd))
          # MoveListOf(seq.last.cmd)

\* the statement of C22 as written: a malformed command leaves the root
\* position and the options as they were, and unknown commands and options
\* are reported
C22_MalformedUnchanged ==
    /\ (UnknownCommand \/ UnknownOption \/ IllegalMoveInList)
          => (seq.pos = seq.last.pos /\ seq.options = seq.last.options)
    /\ UnknownCommand => seq.out = << "Unknown command:", Join(seq.last.cmd) >>
    /\ UnknownOption => (seq.out # << >> /\ seq.out[1] = "No such option:")

\* C22: an unknown command and a setoption naming an unknown option leave the
\* root position and the options as they were and are reported as "Unknown
\* command:" and "No such option:"; a position command whose move list holds
\* a token that is no legal move leaves the options as they were, reports
\* nothing and sets the root position to the position it names followed by
\* the moves before that token
C22_MalformedInput ==
    /\ (UnknownCommand \/ UnknownOption)
          => (seq.pos = seq.last.pos /\ seq.options = seq.last.options)
    /\ UnknownCommand => seq.out = << "Unknown command:", Join(seq.last.cmd) >>
    /\ UnknownOption => (seq.out # << >> /\ seq.out[1] = "No such option:")
    /\ IllegalMoveInList =>
          /\ seq.options = seq.last.options
          /\ seq.out = << >>
          /\ seq.pos.fen = BaseOf(seq.last.cmd).fen
          /\ seq.pos.played = LegalPrefix(BaseOf(seq.last.cmd), MoveListOf(seq.last.cmd))

\* a position command with a legal move followed by a token that is no move
\* has changed the root position
C22_Witness ==
    /\ IllegalMoveInList
    /\ Len(seq.pos.played) >= 1
    /\ seq.pos # seq.last.pos

\* an unknown option has been reported and has left the options, of which one
\* was set before, as they were
C22_UnknownOptionReported ==
    /\ UnknownOption
    /\ seq.out = << "No such option:", "Bogus" >>
    /\ \E n \in OptionNames : seq.options[n] = "true"

(***************************************************************************)
(* Properties of the magic bitboards                                       *)
(***************************************************************************)
\* the squares a slider on the square of rank r and file f attacks in the
\* direction (dr, df): the squares of the ray up to the first occupied one
RECURSIVE RayWalk(_, _, _, _, _, _)
RayWalk(n, r, f, dr, df, occupied) ==
    IF r + dr \notin 0 .. (n - 1) \/ f + df \notin 0 .. (n - 1) THEN {}
    ELSE LET s == (r + dr) * n + (f + df)
         IN  {s} \cup (IF s \in occupied THEN {}
                       ELSE RayWalk(n, r + dr, f + df, dr, df, occupied))

RayAttacks(n, slider, sq, occupied) ==
    LET dirs == IF slider = "rook"
                THEN { << 1, 0 >>, << 0, 1 >>, << -1, 0 >>, << 0, -1 >> }
                ELSE { << 1, 1 >>, << -1, 1 >>, << -1, -1 >>, << 1, -1 >> }
    IN  UNION { RayWalk(n, sq \div n, sq % n, d[1], d[2], occupied) : d \in dirs }

\* C23: for every square do_magics() has finished and every occupancy that is
\* a subset of the mask of the square, the slot (occupancy * magic) >> shift
\* of the sub-table of the square holds the squares of the rays from the square
\* up to the first occupied one; the sub-tables follow each other without
\* overlap inside the table, no write falls outside the sub-table of its
\* square, and the tables of the program have the size of all sub-tables
C23_MagicLookupExact ==
    seq.pc \in { "magics", "magics done" } =>
       /\ ~seq.outside
       /\ \A sq \in 0 .. (seq.s - 1) :
             /\ \A occupancy \in SUBSET seq.mask[sq] :
                   LET index == seq.attack[sq]
                                   + MagicIndex(BoardSize, occupancy, seq.magic[sq],
                                                seq.shift[sq])
                   IN  /\ index \in DOMAIN seq.attTabl
                       /\ seq.attTabl[index]
                             = RayAttacks(BoardSize, seq.slider, sq, occupancy)
             /\ seq.attack[sq] + Pow2(Cardinality(seq.mask[sq]))
                   = (IF sq + 1 = seq.s THEN seq.offset ELSE seq.attack[sq + 1])
       /\ seq.offset <= TableEntries(BoardSize, 0,
                                                  DeltasOf(BoardSize, seq.slider))
       /\ seq.pc = "magics done" =>
             /\ TableEntries(ChessBoardSize, 0, RDeltas(ChessBoardSize)) = RAttacksTableSize
             /\ TableEntries(ChessBoardSize, 0, BDeltas(ChessBoardSize)) = BAttacksTableSize

\* do_magics() has filled the table of the rooks to its last entry, and a rook
\* in the corner behind a blocker on the next square attacks that square only
\* along its file
C23_Witness ==
    /\ seq.pc = "magics done" /\ seq.slider = "rook" /\ ~seq.outside
    /\ seq.offset = TableEntries(BoardSize, 0, RDeltas(BoardSize))
    /\ seq.attTabl[seq.attack[0] + MagicIndex(BoardSize, { BoardSize }, seq.magic[0],
                                              seq.shift[0])]
          \cap file_bb(BoardSize, 0) = { BoardSize }

(***************************************************************************)
(* Properties of pondering                                                 *)
(***************************************************************************)
GoCommands == { "stop", "ponderhit", "quit" }

\* C24: in a search that think() started as a ponder search, AbortSearch is
\* not set as long as none of the commands stop, ponderhit and quit has been
\* read, whatever the clock and the node count, and the best move is not
\* printed before one of these commands has been read, also when the loop
\* ends at the maximum depth or the root position has no legal move
C24_PonderWaits ==
    (seq.pc \in { "id_loop", "search", "loop end", "wait", "print", "returned" }
       /\ seq.ponder) =>
       /\ seq.PonderSearch => ~seq.AbortSearch
       /\ seq.received \cap GoCommands = {} =>
             /\ ~seq.AbortSearch
             /\ seq.PonderSearch
             /\ ~seq.bestmove
             /\ seq.pc \notin { "print", "returned" }

\* a ponder search with a node limit and a time limit has passed both and has
\* reached its maximum depth, and waits for a command
C24_Witness ==
    /\ seq.pc = "wait" /\ seq.ponder /\ seq.after = "print"
    /\ seq.received \cap GoCommands = {}
    /\ seq.MaxNodes # 0 /\ nodes_searched(seq) >= seq.MaxNodes
    /\ seq.ExactMaxTime # 0 /\ seq.t >= seq.ExactMaxTime
    /\ seq.Iteration >= 3 /\ seq.polls >= 1 /\ seq.lastPollTime >= seq.ExactMaxTime
    /\ seq.MaxDepth # 0

\* a ponder search of a position without a legal move waits for a command
C24_NoMoveWaits ==
    ~(seq.pc = "wait" /\ seq.ponder /\ seq.after = "return" /\ seq.moveCount = 0)

(***************************************************************************)
(* Properties of the threads                                               *)
(***************************************************************************)
MainParked(s) == s.main \in { "ml_wait", "ml_woken" } /\ s.do_sleep

\* C25: the searches launched and the calls of Search::think() never differ
\* by more than the one search that is launched and not yet started, so that
\* no two searches overlap, and once the main thread waits again in
\* main_loop(), with the UI thread out of start_thinking(), every search
\* launched has been run; this holds also for a call of start_thinking() made
\* before the main thread has waited for the first time
C25_NoSearchLost ==
    AtThreads =>
       /\ seq.thinks <= seq.calls
       /\ seq.calls <= seq.thinks + 1
       /\ (seq.ui = "idle" /\ seq.exitAt = "none" /\ MainParked(seq))
             => seq.thinks = seq.calls

\* start_thinking() launches a search only when the main thread is back in its
\* wait in main_loop()
C25_LaunchWhenParked ==
    [][(AtThreads /\ seq'.calls = seq.calls + 1) => MainParked(seq)]_vars

\* the properties of C25 when no search is launched before the first wait of
\* the main thread
C25_OnceParked ==
    /\ [](AtThreads /\ ~seq.early =>
            /\ seq.thinks <= seq.calls
            /\ seq.calls <= seq.thinks + 1
            /\ (seq.ui = "idle" /\ seq.exitAt = "none" /\ MainParked(seq))
                  => seq.thinks = seq.calls)
    /\ [][(AtThreads /\ seq.parked /\ ~seq.early /\ seq'.calls = seq.calls + 1)
             => MainParked(seq)]_vars

\* two searches have been launched and run, the second while the UI thread
\* waited for the first to end
C25_TwoSearches ==
    ~(AtThreads /\ seq.thinks = 2 /\ seq.calls = 2 /\ MainParked(seq) /\ seq.ui = "idle")

\* C26: when exit() has set do_terminate of a thread and woken it and waits
\* in the join, the thread does not wait on its condition, so that no
\* wake-up is lost between the test of do_terminate and the wait and the
\* thread leaves its loop
C26_NoLostWakeup ==
    (AtThreads /\ seq.ui = "exit_join") => seq[seq.exitAt] \notin { "ml_wait", "tl_wait" }

\* the main thread does not wait in main_loop() when exit() waits for it
C26_MainThreadWoken ==
    (AtThreads /\ seq.ui = "exit_join" /\ seq.exitAt = "main") => seq.main # "ml_wait"

\* the timer thread sleeps in a wait that does not expire while exit() waits
\* for it
C26_TimerSleepsThroughExit ==
    ~(AtThreads /\ seq.ui = "exit_join" /\ seq.exitAt = "timer"
        /\ seq.timer = "tl_wait" /\ seq.waitFor = 0)

\* C27: do_timer_event() is called only when a timed wait of the interval
\* set by set_timer() has expired, and not while the interval is 0, that is
\* between set_timer(0) and the next set_timer() with another interval
C27_TimerFiresOnExpiry ==
    (AtThreads /\ seq.event.cause # "none") =>
       /\ seq.event.cause = "expiry"
       /\ seq.event.waited = seq.event.maxPly
       /\ seq.event.maxPly # 0

\* do_timer_event() is called with the timer stopped by set_timer(0)
C27_FiresWhenStopped ==
    ~(AtThreads /\ seq.event.cause = "signal" /\ seq.event.maxPly = 0
        /\ seq.event.waited # 0)

(***************************************************************************)
(* Properties of the transposition table in a stopped search               *)
(***************************************************************************)
\* AbortSearch or thread_should_stop() was true when the move loop began, so
\* that every child searched in the loop was interrupted
StoppedInLoop == seq.stopAt = "loop"

\* C28: a search_pv(), search() or qsearch() whose move loop ran with
\* AbortSearch or thread_should_stop() set stores no entry that carries the
\* move and the value of a child searched in that loop
C28_NoStoreWhenStopped ==
    (seq.pc = "returned" /\ StoppedInLoop /\ seq.stored # NoStore)
       => seq.stored.move = MOVE_NONE

\* search_pv() and search() store nothing when AbortSearch or
\* thread_should_stop() is set at the loop or behind it
C28_SearchStoresUnlessStopped ==
    (seq.pc = "returned" /\ seq.fn \in { "search_pv", "search" }
       /\ seq.stopAt \in { "loop", "exit" })
       => seq.stored = NoStore

\* qsearch() stores the value 0 that an interrupted child returned, with the
\* move of the child, as an exact score or as a lower bound
C28_QsearchStoresStopped ==
    ~(seq.pc = "returned" /\ seq.fn = "qsearch" /\ StoppedInLoop
        /\ seq.stored # NoStore /\ seq.stored.move # MOVE_NONE
        /\ seq.stored.type \in { VALUE_TYPE_EXACT, VALUE_TYPE_LOWER }
        /\ seq.ret = 0)

(***************************************************************************)
(* Properties of the values of a split point                               *)
(***************************************************************************)
\* the SplitPoint objects in use: those below activeSplitPoints of their master
LiveSplitPoints ==
    { s \in ThreadIds \X SlotIds : s[2] < Threads[s[1]].activeSplitPoints }

\* the workers that hold a value for the split point s
Recorders(s) ==
    { t \in ThreadIds : Running(t) /\ Top(t).kind = "sp" /\ Top(t).sp = s
                          /\ Top(t).pc \in { "rec", "fut" } }

\* C29: bestValue of a split point in use never decreases and changes only to
\* a larger value that a worker of the split point records; at a PV split
\* point alpha never decreases and bestValue <= alpha; and split() returns to
\* the master the bestValue of the split point, which is therefore the largest
\* of the bestValue at the split and the values recorded
C29_SplitPointValues ==
    /\ [](\A s \in LiveSplitPoints : SP(s).pvNode => SP(s).bestValue <= SP(s).alpha)
    /\ [][/\ \A s \in LiveSplitPoints :
                LET old == SP(s)
                    new == SplitPointStack'[s[1]][s[2]]
                IN  /\ new.bestValue >= old.bestValue
                    /\ old.pvNode => new.alpha >= old.alpha
                    /\ new.bestValue # old.bestValue =>
                          \E t \in Recorders(s) : new.bestValue = Top(t).value
          /\ \A t \in ThreadIds :
                (AtNode(t, "split_join") /\ stack'[t][Len(stack'[t])].pc = "end")
                   => /\ stack'[t][Len(stack'[t])].bestValue = SP(Top(t).sp).bestValue
                      /\ Top(t).pvNode =>
                            stack'[t][Len(stack'[t])].alpha = SP(Top(t).sp).alpha]_vars

\* the master of a PV split point is about to leave split() with the workers
\* gone, after two moves were handed out and alpha and bestValue were raised
\* above the values the split point began with
C29_Witness ==
    \E t \in ThreadIds :
       /\ AtNode(t, "split_join") /\ Top(t).pvNode
       /\ SP(Top(t).sp).cpus = 0
       /\ Len(handed[Top(t).sp[1]][Top(t).sp[2]]) >= 2
       /\ SP(Top(t).sp).bestValue > Top(t).bestValue
       /\ SP(Top(t).sp).alpha > Top(t).alpha

(***************************************************************************)
(* Properties of the recursion of the search                               *)
(***************************************************************************)
\* a step in which the running activation calls another one
IsCall == AtRecursion /\ seq' # NoSeq /\ Len(seq'.calls) = Len(seq.calls) + 1

\* the activation that a call step begins
Called == seq'.calls[Len(seq'.calls)]

\* the call goes one ply down from a ply below PLY_MAX - 1
OnePlyDown == Called.ply = Callee.ply + 1 /\ ~MaxPlyReached(Callee.ply)

\* the call stays at the ply with a strictly smaller depth
SamePlySmallerDepth == Called.ply = Callee.ply /\ Called.depth < Callee.depth

\* return qsearch(pos, ss, alpha, beta, Depth(0), ply, threadID) at depth < OnePly
HandOff ==
    /\ Called.ply = Callee.ply
    /\ Called.fn = "qsearch" /\ Called.depth = 0
    /\ Callee.fn # "qsearch" /\ Callee.depth < OnePly

\* the search stack has the entries 0 .. PLY_MAX + 1
SsInBounds ==
    AtRecursion =>
       \A i \in 1 .. Len(seq.calls) : SsIndices(seq.calls[i]) \subseteq 0 .. PlyMax + 1

\* C30, as stated: every call is at ply + 1 or at the same ply with a strictly
\* smaller depth, and no call is made at ply >= PLY_MAX - 1
C30_SmallerDepthOrNextPly ==
    [][IsCall => /\ Called.ply = Callee.ply + 1 \/ SamePlySmallerDepth
                 /\ ~MaxPlyReached(Callee.ply)]_vars

\* C30, amended: every call is at ply + 1 from a ply below PLY_MAX - 1, or at
\* the same ply with a strictly smaller depth, or it is the call of qsearch()
\* with Depth(0) at the same ply that search_pv() and search() make at
\* depth < OnePly; qsearch() calls only at ply + 1; the entries ss[ply - 1] to
\* ss[ply + 2] that an activation uses are inside the search stack; and the
\* recursion returns to its caller
C30_RecursionTerminates ==
    /\ [][IsCall => /\ OnePlyDown \/ SamePlySmallerDepth \/ HandOff
                    /\ Callee.fn = "qsearch" => OnePlyDown]_vars
    /\ []SsInBounds
    /\ <>(seq # NoSeq /\ seq.pc = "recursion" /\ seq.calls = << >>)

\* a search at ply PLY_MAX - 1 and depth 0 has handed over to qsearch(), which
\* is past init_node(), below an activation that called at its own ply with a
\* smaller depth
C30_Witness ==
    /\ AtRecursion
    /\ Len(seq.calls) >= 3
    /\ Callee.fn = "qsearch" /\ Callee.pc = "node" /\ Callee.ply = PlyMax - 1
    /\ seq.calls[Len(seq.calls) - 1].fn # "qsearch"
    /\ seq.calls[Len(seq.calls) - 1].ply = Callee.ply
    /\ seq.calls[Len(seq.calls) - 1].depth = 0
    /\ \E i \in 1 .. Len(seq.calls) - 1 :
          /\ seq.calls[i + 1].ply = seq.calls[i].ply
          /\ seq.calls[i + 1].fn # "qsearch"
          /\ seq.calls[i + 1].depth < seq.calls[i].depth

====
